---- MODULE Spec2Model ----
(***************************************************************************)
(* Edge traffic manager: LoadBalancer (origin selection and failover) and  *)
(* the parts of HealthChecker it reads (health cache, per-origin metrics). *)
(* Times are milliseconds as returned by Date.now().                       *)
(***************************************************************************)
EXTENDS Integers, Sequences, FiniteSets, TLC

\* ---------------------------------------------------------------- bounds
MaxTicks == 1          \* clock steps explored in SpecRoundRobin
MaxProbes == 4         \* fresh probes explored per behaviour
BaseRR == 1            \* round-robin cursor explored in Spec
BaseConn == 1          \* live connections per origin explored in Spec
MaxRR == 4             \* round-robin cursor explored in SpecRoundRobin
MaxConn == 2           \* live connections per origin in SpecLeastConnections
MaxWeight == 2         \* largest weight handed to setWeight
MaxSamples == 3        \* recordLatency calls explored per origin and behaviour
MaxLatencyTicks == 2   \* clock steps explored in SpecLatency
MaxStaleTicks == 3     \* clock steps explored in SpecStaleness
MaxCacheTicks == 3     \* clock steps explored in SpecCache
MaxScoreTicks == 2     \* clock steps explored in SpecScore
MaxFreshTicks == 4     \* clock steps explored in SpecFreshness
MaxEntries == 1        \* keys the backend holds in SpecBuckets
MaxInflight == 2       \* getOptimalOrigin calls in flight at a time
MaxLogTicks == 11      \* clock steps explored in SpecErrorLog
MaxHops == 3           \* origins a request moves on to in SpecFailover
MaxOverlap == 2        \* checkOriginHealth calls waiting at a time

\* ------------------------------------------------------ program constants
CheckInterval == 30000
ResponseTimeThreshold == 2000
MaxErrorLog == 10
HistoryCap == 100
LatencyWindow == 10 * 60 * 1000
DefaultLatency == 1000
DefaultMaxTTL == 86400
SizeLimit == 10 * 1024 * 1024

ROUND_ROBIN == "round_robin"
LEAST_CONNECTIONS == "least_connections"
WEIGHTED_ROUND_ROBIN == "weighted_round_robin"
LATENCY_BASED == "latency_based"
GEOGRAPHIC == "geographic"
HEALTH_SCORE == "health_score"

algorithms ==
  {ROUND_ROBIN, LEAST_CONNECTIONS, WEIGHTED_ROUND_ROBIN,
   LATENCY_BASED, GEOGRAPHIC, HEALTH_SCORE}

\* The three origins of the test configuration.
mockOrigins == <<"origin1", "origin2", "origin3">>

\* JavaScript's undefined, and the "no value" of a call that returns nothing.
Undefined == "undefined"

\* ------------------------------------------------------------------ state
VARIABLES
  now,                \* Date.now()
  origins,            \* LoadBalancer.origins / config.ORIGINS
  healthCache,        \* HealthChecker.healthCache : origin -> {health, timestamp}
  metrics,            \* HealthChecker.metrics, a Map in insertion order
  currentAlgorithm,   \* LoadBalancer.currentAlgorithm
  roundRobinIndex,    \* LoadBalancer.roundRobinIndex
  connectionCounts,   \* LoadBalancer.connectionCounts
  latencyHistory,     \* LoadBalancer.latencyHistory : origin -> samples
  weights,            \* LoadBalancer.weights
  geographicMapping,  \* LoadBalancer.geographicMapping : colo -> origin
  ret,                \* the call that just returned and what it returned
  recorded,           \* history: every sample ever handed to recordLatency
  kvStore,            \* CacheManager.kvStore: the key-value backend's content
  maxTTL,             \* CacheManager.maxTTL, in seconds
  inflight,           \* getOptimalOrigin calls suspended at their await
  sweep,              \* origins whose probe a running checkAllOrigins awaits
  pending,            \* the fetchWithOptimizations call awaiting its fetch
  probing             \* checkOriginHealth calls awaiting their four checks

hcVars == <<healthCache, metrics>>
lbVars == <<currentAlgorithm, roundRobinIndex, connectionCounts,
            latencyHistory, weights, geographicMapping>>
cmVars == <<kvStore, maxTTL>>
asyncVars == <<inflight, sweep, pending, probing>>
vars == <<now, origins, healthCache, metrics, currentAlgorithm,
          roundRobinIndex, connectionCounts, latencyHistory, weights,
          geographicMapping, ret, recorded, kvStore, maxTTL, inflight, sweep, pending,
          probing>>

\* ---------------------------------------------------------------- helpers
Range(s) == {s[i] : i \in 1..Len(s)}

includes(s, x) == \E i \in 1..Len(s) : s[i] = x

\* Map.get(k) || d
GetOr(m, k, d) == IF k \in DOMAIN m THEN m[k] ELSE d

\* Map.set(k, v)
MapSet(m, k, v) == [x \in DOMAIN m \cup {k} |-> IF x = k THEN v ELSE m[x]]

EmptyMap == [x \in {} |-> 0]

Max(a, b) == IF a >= b THEN a ELSE b

\* Sum of s[lo..hi], by halves so that long sequences nest shallowly.
RECURSIVE SumRange(_, _, _)
SumRange(s, lo, hi) ==
  IF lo > hi THEN 0
  ELSE IF lo = hi THEN s[lo]
  ELSE LET mid == (lo + hi) \div 2
       IN SumRange(s, lo, mid) + SumRange(s, mid + 1, hi)

SumSeq(s) == SumRange(s, 1, Len(s))

\* Math.round of the non-negative rational num/den
RoundDiv(num, den) == (2 * num + den) \div (2 * den)

\* What a call hands back to its caller; `value` is the number or flag it
\* returned, or the argument it rejected.
Ret(op, origin, threw, edgeColo, failed, value) ==
  [op |-> op, origin |-> origin, threw |-> threw, edgeColo |-> edgeColo,
   failedOrigin |-> failed, value |-> value]

NoRet == Ret("none", Undefined, FALSE, Undefined, Undefined, 0)

\* ------------------------------------------------------------ HealthChecker
\* Position of origin's entry in the metrics Map, 0 when it has none.
MetricsIndex(origin) ==
  IF \E i \in 1..Len(metrics) : metrics[i].origin = origin
  THEN CHOOSE i \in 1..Len(metrics) : metrics[i].origin = origin
  ELSE 0

\* A count over the whole error log (the mutant of C17).
RecentErrors_WholeLog(m) == Len(m.errors)

\* Errors logged less than five probe intervals ago.
RecentErrors(m) ==
  Cardinality({i \in 1..Len(m.errors) : now - m.errors[i] < CheckInterval * 5})

\* calculateHealthScore, in exact arithmetic over the common denominator
\* 10 * threshold * totalChecks.
calculateHealthScore(m) ==
  IF m.totalChecks = 0 THEN 0
  ELSE LET t == m.totalChecks
           thr == ResponseTimeThreshold
           recentScore == Max(0, 100 - RecentErrors(m) * 20)
           num == 400 * m.successfulChecks * thr
                  + 300 * Max(0, thr * t - m.totalResponseTime)
                  + 3 * recentScore * thr * t
       IN RoundDiv(num, 10 * thr * t)

\* Array.prototype.sort((a, b) => b.healthScore - a.healthScore): stable,
\* descending.  Insert x after every element that is not smaller.
RECURSIVE InsertByScore(_, _)
InsertByScore(sorted, x) ==
  IF sorted = <<>> THEN <<x>>
  ELSE IF Head(sorted).healthScore >= x.healthScore
       THEN <<Head(sorted)>> \o InsertByScore(Tail(sorted), x)
       ELSE <<x>> \o sorted

RECURSIVE SortByScore(_)
SortByScore(s) ==
  IF s = <<>> THEN <<>>
  ELSE InsertByScore(SortByScore(SubSeq(s, 1, Len(s) - 1)), s[Len(s)])

getOriginsByHealth ==
  SortByScore([i \in 1..Len(metrics) |->
                 [origin |-> metrics[i].origin,
                  healthScore |-> calculateHealthScore(metrics[i])]])

\* A lookup that trusts a snapshot of any age (the mutant of C14).
isOriginHealthy_IgnoresAge(origin) ==
  IF origin \notin DOMAIN healthCache THEN FALSE
  ELSE healthCache[origin].health.healthy

isOriginHealthy(origin) ==
  IF origin \notin DOMAIN healthCache THEN FALSE
  ELSE IF now - healthCache[origin].timestamp > CheckInterval * 2 THEN FALSE
  ELSE healthCache[origin].health.healthy

\* Promise.all in place of Promise.allSettled: one rejected check aborts
\* the round and no check result is recorded (the mutant of C32).
CheckPassed_AbortsOnRejection(results, i) ==
  /\ results[i] = "true"
  /\ \A j \in 1..4 : results[j] # "rejected"

\* results[i] is how the i-th of the checks connectivity, responseTime,
\* statusCode, ssl settled: "true", "false" (fulfilled with that value) or
\* "rejected".
CheckPassed(results, i) == results[i] = "true"

NewMetrics(origin) ==
  [origin |-> origin, totalChecks |-> 0, successfulChecks |-> 0,
   totalResponseTime |-> 0, errors |-> <<>>]

\* A log that takes an entry only when health.error is set, which no probe
\* does (the mutant of C33).
updateOriginMetrics_LogsOnlyThrown(origin, health, t) ==
  LET i == MetricsIndex(origin)
      old == IF i = 0 THEN NewMetrics(origin) ELSE metrics[i]
      new == [origin |-> origin,
              totalChecks |-> old.totalChecks + 1,
              successfulChecks |-> old.successfulChecks
                                   + (IF health.healthy THEN 1 ELSE 0),
              totalResponseTime |-> old.totalResponseTime + health.responseTime,
              errors |-> old.errors]
  IN IF i = 0 THEN Append(metrics, new)
     ELSE [metrics EXCEPT ![i] = new]

\* A log cut to its first ten entries, slice(0, 10), so that the newest
\* entry is the one dropped (the mutant of C34).
updateOriginMetrics_KeepsOldest(origin, health, t) ==
  LET i == MetricsIndex(origin)
      old == IF i = 0 THEN NewMetrics(origin) ELSE metrics[i]
      pushed == Append(old.errors, t)
      errs == IF health.healthy THEN old.errors
              ELSE IF Len(pushed) > MaxErrorLog
                   THEN SubSeq(pushed, 1, MaxErrorLog)
                   ELSE pushed
      new == [origin |-> origin,
              totalChecks |-> old.totalChecks + 1,
              successfulChecks |-> old.successfulChecks
                                   + (IF health.healthy THEN 1 ELSE 0),
              totalResponseTime |-> old.totalResponseTime + health.responseTime,
              errors |-> errs]
  IN IF i = 0 THEN Append(metrics, new)
     ELSE [metrics EXCEPT ![i] = new]

\* updateOriginMetrics(origin, health) at time t
updateOriginMetrics(origin, health, t) ==
  LET i == MetricsIndex(origin)
      old == IF i = 0 THEN NewMetrics(origin) ELSE metrics[i]
      pushed == Append(old.errors, t)
      errs == IF health.healthy THEN old.errors
              ELSE IF Len(pushed) > MaxErrorLog
                   THEN SubSeq(pushed, Len(pushed) - MaxErrorLog + 1, Len(pushed))
                   ELSE pushed
      new == [origin |-> origin,
              totalChecks |-> old.totalChecks + 1,
              successfulChecks |-> old.successfulChecks
                                   + (IF health.healthy THEN 1 ELSE 0),
              totalResponseTime |-> old.totalResponseTime + health.responseTime,
              errors |-> errs]
  IN IF i = 0 THEN Append(metrics, new)
     ELSE [metrics EXCEPT ![i] = new]

\* Fresh probes run so far, over all origins.
TotalProbes == SumSeq([i \in 1..Len(metrics) |-> metrics[i].totalChecks])

\* A cache that holds a result for the whole interval (the mutant of C16).
CacheHit_WholeInterval(origin) ==
  /\ origin \in DOMAIN healthCache
  /\ now - healthCache[origin].timestamp < CheckInterval

CacheHit(origin) ==
  /\ origin \in DOMAIN healthCache
  /\ 2 * (now - healthCache[origin].timestamp) < CheckInterval

\* health.healthy: "at least 3 out of 4 checks must pass".  A verdict that
\* asks for all four is the mutant of C15.
healthyVerdict_AllFour(passedChecks) == passedChecks >= 4

healthyVerdict(passedChecks) == passedChecks >= 3

\* checkOriginHealth(origin): the four checks settle as `results` and the
\* probe takes `elapsed` ms.  The snapshot returned and the state left
\* behind; `fresh` tells whether the checks were run.
checkOriginHealth(origin, results, elapsed) ==
  IF CacheHit(origin)
  THEN [fresh |-> FALSE, health |-> healthCache[origin].health, now |-> now,
        healthCache |-> healthCache, metrics |-> metrics]
  ELSE LET startTime == now
           checks == [i \in 1..4 |-> CheckPassed(results, i)]
           passedChecks == Cardinality({i \in 1..4 : checks[i]})
           health == [healthy |-> healthyVerdict(passedChecks),
                      checks |-> checks,
                      timestamp |-> startTime,
                      responseTime |-> elapsed]
           end == now + elapsed
       IN [fresh |-> TRUE, health |-> health, now |-> end,
           healthCache |-> MapSet(healthCache, origin,
                                  [health |-> health, timestamp |-> end]),
           metrics |-> updateOriginMetrics(origin, health, end)]

\* What a caller awaiting checkOriginHealth gets: the snapshot, and for the
\* record the outcomes of the checks that ran (none on a cache hit).
HealthRet(origin, results, health) ==
  [op |-> "checkOriginHealth", origin |-> origin, threw |-> FALSE,
   edgeColo |-> Undefined, failedOrigin |-> Undefined, value |-> health,
   results |-> results]

\* A checkOriginHealth call whose result is dropped by the caller.
CheckOriginHealth(origin, results, elapsed) ==
  LET out == checkOriginHealth(origin, results, elapsed)
  IN /\ includes(origins, origin)
     /\ out.fresh => TotalProbes < MaxProbes
     /\ now' = out.now
     /\ healthCache' = out.healthCache
     /\ metrics' = out.metrics
     /\ ret' = NoRet
     /\ UNCHANGED <<origins, asyncVars, cmVars, lbVars, recorded>>

\* const health = await this.checkOriginHealth(origin), as in
\* checkAllOrigins; at most `limit` fresh probes are explored.
AwaitOriginHealth(origin, results, elapsed, limit) ==
  LET out == checkOriginHealth(origin, results, elapsed)
  IN /\ includes(origins, origin)
     /\ out.fresh => TotalProbes < limit
     /\ now' = out.now
     /\ healthCache' = out.healthCache
     /\ metrics' = out.metrics
     /\ ret' = HealthRet(origin, IF out.fresh THEN results ELSE <<>>, out.health)
     /\ UNCHANGED <<origins, asyncVars, cmVars, lbVars, recorded>>

\* checkAllOrigins() up to its await: a checkOriginHealth call is started
\* for every configured origin.  One sweep runs at a time, and only while
\* the probes it may run are within the explored number.
BeginCheckAllOrigins ==
  /\ sweep = {}
  /\ TotalProbes + Len(origins) <= MaxProbes
  /\ sweep' = Range(origins)
  /\ ret' = NoRet
  /\ UNCHANGED <<now, origins, inflight, pending, probing, cmVars, hcVars,
                 lbVars, recorded>>

\* One of the checkOriginHealth calls of the running sweep settles; they
\* settle in any order.
SettleOriginHealth(origin, results, elapsed) ==
  LET out == checkOriginHealth(origin, results, elapsed)
  IN /\ origin \in sweep
     /\ sweep' = sweep \ {origin}
     /\ now' = out.now
     /\ healthCache' = out.healthCache
     /\ metrics' = out.metrics
     /\ ret' = HealthRet(origin, IF out.fresh THEN results ELSE <<>>, out.health)
     /\ UNCHANGED <<origins, inflight, pending, probing, cmVars, lbVars,
                    recorded>>

\* this.timeout: a fetch still pending after this many ms is aborted.
ProbeTimeout == 5000

\* How the one fetch of a check ends: with a response of some status after
\* ms milliseconds, or with an error (AbortError when the timeout aborted
\* it, TypeError for a refused connection or a certificate failure).
Fetched(status, ms) == [kind |-> "response", error |-> "", status |-> status, ms |-> ms]

FetchFailed(error, ms) == [kind |-> "error", error |-> error, status |-> 0, ms |-> ms]

\* checkConnectivity: the only check that lets the error of its fetch out.
checkConnectivity(fetched) ==
  IF fetched.kind = "response"
  THEN IF fetched.status < 500 THEN "true" ELSE "false"
  ELSE "rejected"

checkResponseTime(fetched) ==
  IF fetched.kind = "response"
  THEN IF fetched.ms <= ResponseTimeThreshold THEN "true" ELSE "false"
  ELSE "false"

checkStatusCode(fetched) ==
  IF fetched.kind = "response"
  THEN IF fetched.status >= 200 /\ fetched.status <= 299 THEN "true" ELSE "false"
  ELSE "false"

\* checkSSL: no fetch is made for an origin that is not https.
checkSSL(fetched, https) ==
  IF ~https THEN "true"
  ELSE IF fetched.kind = "response" THEN "true" ELSE "false"

\* The four promises handed to Promise.allSettled, and the time until the
\* last of them settles.
settleChecks(fetches, https) ==
  <<checkConnectivity(fetches[1]), checkResponseTime(fetches[2]),
    checkStatusCode(fetches[3]), checkSSL(fetches[4], https)>>

settleTime(fetches, https) ==
  LET made == IF https THEN 1..4 ELSE 1..3
  IN CHOOSE ms \in {fetches[i].ms : i \in made} :
       \A i \in made : fetches[i].ms <= ms

\* checkOriginHealth(origin) with the network behaving as `fetches`, called
\* on its own or, when `awaited`, as one of the calls checkAllOrigins waits
\* for; `completes` tells whether that settles the last of them, so that
\* checkAllOrigins returns.
FetchOriginHealth(origin, fetches, https, awaited, limit) ==
  LET results == settleChecks(fetches, https)
      out == checkOriginHealth(origin, results, settleTime(fetches, https))
  IN /\ includes(origins, origin)
     /\ awaited <=> origin \in sweep
     /\ (out.fresh /\ ~awaited) => TotalProbes + Cardinality(sweep) < limit
     /\ sweep' = sweep \ {origin}
     /\ now' = out.now
     /\ healthCache' = out.healthCache
     /\ metrics' = out.metrics
     /\ ret' = [op |-> "checkOriginHealth", origin |-> origin, threw |-> FALSE,
                edgeColo |-> Undefined, failedOrigin |-> Undefined,
                value |-> out.health,
                results |-> IF out.fresh THEN results ELSE <<>>,
                fetches |-> IF out.fresh THEN fetches ELSE <<>>, https |-> https,
                completes |-> awaited /\ sweep' = {}]
     /\ UNCHANGED <<origins, inflight, pending, probing, cmVars, lbVars,
                    recorded>>

\* checkOriginHealth(origin) up to  await Promise.allSettled(...): on a
\* recent cached result it returns at once; otherwise it notes startTime,
\* starts the four checks and waits.  At most `limit` calls wait at a time.
BeginOriginHealth(origin, limit) ==
  /\ includes(origins, origin)
  /\ IF CacheHit(origin)
     THEN /\ probing' = probing
          /\ ret' = HealthRet(origin, <<>>, healthCache[origin].health)
     ELSE /\ Len(probing) < limit
          /\ TotalProbes + Len(probing) < MaxProbes
          /\ probing' = Append(probing, [origin |-> origin, startTime |-> now])
          /\ ret' = NoRet
  /\ UNCHANGED <<now, origins, inflight, sweep, pending, cmVars, hcVars, lbVars,
                 recorded>>

\* The k-th waiting call goes on once its checks have settled as `results`:
\* it builds the snapshot, caches it under the current time and updates the
\* metrics, without looking at the cache again.
FinishOriginHealth(k, results) ==
  /\ k \in 1..Len(probing)
  /\ LET call == probing[k]
         checks == [i \in 1..4 |-> CheckPassed(results, i)]
         passedChecks == Cardinality({i \in 1..4 : checks[i]})
         health == [healthy |-> healthyVerdict(passedChecks),
                    checks |-> checks,
                    timestamp |-> call.startTime,
                    responseTime |-> now - call.startTime]
     IN /\ healthCache' = MapSet(healthCache, call.origin,
                                 [health |-> health, timestamp |-> now])
        /\ metrics' = updateOriginMetrics(call.origin, health, now)
        /\ ret' = HealthRet(call.origin, results, health)
  /\ probing' = [i \in 1..(Len(probing) - 1) |->
                   IF i < k THEN probing[i] ELSE probing[i + 1]]
  /\ UNCHANGED <<now, origins, inflight, sweep, pending, cmVars, lbVars,
                 recorded>>

IsOriginHealthy(origin) ==
  /\ ret' = Ret("isOriginHealthy", origin, FALSE, Undefined, Undefined,
                isOriginHealthy(origin))
  /\ UNCHANGED <<now, origins, asyncVars, cmVars, hcVars, lbVars, recorded>>

GetOriginsByHealth ==
  /\ ret' = Ret("getOriginsByHealth", Undefined, FALSE, Undefined, Undefined,
                getOriginsByHealth)
  /\ UNCHANGED <<now, origins, asyncVars, cmVars, hcVars, lbVars, recorded>>

\* The wall clock advances by d ms.
Tick(d, limit) ==
  /\ now + d <= limit
  /\ now' = now + d
  /\ ret' = NoRet
  /\ UNCHANGED <<origins, asyncVars, cmVars, hcVars, lbVars, recorded>>

\* ------------------------------------------------------------- LoadBalancer
\* Math.random() is k / RandomSteps for some k in Randoms; the grid is finer
\* than one weight unit of the largest total weight.
RandomSteps == Len(mockOrigins) * MaxWeight + 1
Randoms == 0..(RandomSteps - 1)

\* What a selection returns, and the counters it leaves behind.
Outcome(origin, rrIndex, counts) ==
  [origin |-> origin, threw |-> FALSE,
   roundRobinIndex |-> rrIndex, connectionCounts |-> counts]

\* An exception reaching the caller; nothing was written before it.
Thrown ==
  [origin |-> Undefined, threw |-> TRUE,
   roundRobinIndex |-> roundRobinIndex, connectionCounts |-> connectionCounts]

initializeWeights(list) == [o \in Range(list) |-> 1]

initializeConnectionCounts(list) == [o \in Range(list) |-> 0]

\* this.origins[i] with a 0-based index
OriginAt(list, i) == IF i + 1 <= Len(list) THEN list[i + 1] ELSE Undefined

initializeGeographicMapping(list) ==
  [c \in {"LAX", "DFW", "JFK", "LHR", "NRT"} |->
     CASE c = "LAX" -> OriginAt(list, 0)
       [] c = "DFW" -> OriginAt(list, 1)
       [] c = "JFK" -> OriginAt(list, 0)
       [] c = "LHR" -> OriginAt(list, 2)
       [] c = "NRT" -> OriginAt(list, 1)]

getHealthyOrigins == SelectSeq(origins, isOriginHealthy)

\* A cursor that selects but is never advanced (the mutant of C4).
roundRobin_NoAdvance(list) ==
  Outcome(list[(roundRobinIndex % Len(list)) + 1],
          roundRobinIndex, connectionCounts)

roundRobin(list) ==
  Outcome(list[(roundRobinIndex % Len(list)) + 1],
          roundRobinIndex + 1, connectionCounts)

\* A scan that lets a later origin win a tie (the mutant of C5).
RECURSIVE LeastScan_LastOnTies(_, _, _, _)
LeastScan_LastOnTies(list, i, selectedOrigin, minConnections) ==
  IF i > Len(list) THEN <<selectedOrigin, minConnections>>
  ELSE LET connections == GetOr(connectionCounts, list[i], 0)
       IN IF connections <= minConnections
          THEN LeastScan_LastOnTies(list, i + 1, list[i], connections)
          ELSE LeastScan_LastOnTies(list, i + 1, selectedOrigin, minConnections)

\* The scan of leastConnections from position i on.
RECURSIVE LeastScan(_, _, _, _)
LeastScan(list, i, selectedOrigin, minConnections) ==
  IF i > Len(list) THEN <<selectedOrigin, minConnections>>
  ELSE LET connections == GetOr(connectionCounts, list[i], 0)
       IN IF connections < minConnections
          THEN LeastScan(list, i + 1, list[i], connections)
          ELSE LeastScan(list, i + 1, selectedOrigin, minConnections)

\* A selection that leaves the counts as they are (the mutant of C37).
leastConnections_NoIncrement(list) ==
  LET found == LeastScan(list, 1, list[1], GetOr(connectionCounts, list[1], 0))
  IN Outcome(found[1], roundRobinIndex, connectionCounts)

leastConnections(list) ==
  LET found == LeastScan(list, 1, list[1], GetOr(connectionCounts, list[1], 0))
  IN Outcome(found[1], roundRobinIndex,
             MapSet(connectionCounts, found[1], found[2] + 1))

WeightOf(origin) == GetOr(weights, origin, 1)

totalWeight(list) == SumSeq([i \in 1..Len(list) |-> WeightOf(list[i])])

\* A scan that counts every origin as weight 1 (the mutant of C9).
RECURSIVE WeightedScan_Unweighted(_, _, _, _)
WeightedScan_Unweighted(list, i, currentWeight, rnd) ==
  IF i > Len(list) THEN list[1]
  ELSE LET cw == currentWeight + 1
       IN IF rnd * totalWeight(list) <= cw * RandomSteps
          THEN list[i]
          ELSE WeightedScan_Unweighted(list, i + 1, cw, rnd)

\* The scan of weightedRoundRobin: random = rnd / RandomSteps * total.
RECURSIVE WeightedScan(_, _, _, _)
WeightedScan(list, i, currentWeight, rnd) ==
  IF i > Len(list) THEN list[1]
  ELSE LET cw == currentWeight + WeightOf(list[i])
       IN IF rnd * totalWeight(list) <= cw * RandomSteps
          THEN list[i]
          ELSE WeightedScan(list, i + 1, cw, rnd)

weightedRoundRobin(list, rnd) ==
  Outcome(WeightedScan(list, 1, 0, rnd), roundRobinIndex, connectionCounts)

\* A window that also keeps a sample exactly ten minutes old (the mutant
\* of C10).
RecentMeasurements_Inclusive(history) ==
  SelectSeq(history, LAMBDA m : m.timestamp >= now - LatencyWindow)

\* Samples of origin recorded less than ten minutes ago.
RecentMeasurements(history) ==
  SelectSeq(history, LAMBDA m : m.timestamp > now - LatencyWindow)

getAverageLatency(origin) ==
  LET history == GetOr(latencyHistory, origin, <<>>)
      recentMeasurements == RecentMeasurements(history)
  IN IF Len(history) = 0 THEN DefaultLatency
     ELSE IF Len(recentMeasurements) = 0 THEN DefaultLatency
     ELSE RoundDiv(SumSeq([i \in 1..Len(recentMeasurements) |->
                             recentMeasurements[i].latency]),
                   Len(recentMeasurements))

\* latencyBased(_origins, _context): the body reads the identifier `origins`,
\* which no scope binds (the parameter is _origins), so its first statement
\* raises a ReferenceError.
latencyBased(_origins, _context) == Thrown

\* selectClosestOrigin(_origins, _context): the body reads the identifier
\* `context`, which no scope binds, so its first statement raises a
\* ReferenceError.
selectClosestOrigin(_origins, _context) == Thrown

\* A lookup keyed by the request country instead of the colo (the mutant
\* of C8).
geographic_ByCountry(list, context) ==
  LET preferredOrigin == GetOr(geographicMapping, context.country, Undefined)
  IN IF preferredOrigin # Undefined /\ includes(list, preferredOrigin)
     THEN Outcome(preferredOrigin, roundRobinIndex, connectionCounts)
     ELSE selectClosestOrigin(list, context)

geographic(list, context) ==
  LET preferredOrigin == GetOr(geographicMapping, context.edgeColo, Undefined)
  IN IF preferredOrigin # Undefined /\ includes(list, preferredOrigin)
     THEN Outcome(preferredOrigin, roundRobinIndex, connectionCounts)
     ELSE selectClosestOrigin(list, context)

\* A draw over every scored healthy origin, without the 90% band (the
\* mutant of C6).
healthScoreBased_NoBand(list, rnd) ==
  LET originsByHealth ==
        SelectSeq(getOriginsByHealth, LAMBDA item : includes(list, item.origin))
  IN IF Len(originsByHealth) = 0
     THEN Outcome(list[1], roundRobinIndex, connectionCounts)
     ELSE LET k == (rnd * Len(originsByHealth)) \div RandomSteps
          IN Outcome(originsByHealth[k + 1].origin, roundRobinIndex,
                     connectionCounts)

healthScoreBased(list, rnd) ==
  LET originsByHealth ==
        SelectSeq(getOriginsByHealth, LAMBDA item : includes(list, item.origin))
  IN IF Len(originsByHealth) = 0
     THEN Outcome(list[1], roundRobinIndex, connectionCounts)
     ELSE LET bestHealthScore == originsByHealth[1].healthScore
              topOrigins ==
                SelectSeq(originsByHealth,
                          LAMBDA item : 10 * item.healthScore >= 9 * bestHealthScore)
              k == (rnd * Len(topOrigins)) \div RandomSteps
          IN Outcome(topOrigins[k + 1].origin, roundRobinIndex, connectionCounts)

\* The fail-open target when no origin is healthy (a throwing variant is
\* the mutant of C3).
NoHealthyFallback_Throws == Thrown

NoHealthyFallback ==
  Outcome(OriginAt(origins, 0), roundRobinIndex, connectionCounts)

\* getOptimalOrigin from the point where  await this.getHealthyOrigins()
\* has handed over healthyOrigins: it runs to its return without yielding
\* before any counter is read or written.
selectAmong(healthyOrigins, context, rnd) ==
  IF Len(healthyOrigins) = 0
  THEN NoHealthyFallback
  ELSE IF Len(healthyOrigins) = 1
  THEN Outcome(healthyOrigins[1], roundRobinIndex, connectionCounts)
  ELSE CASE currentAlgorithm = ROUND_ROBIN -> roundRobin(healthyOrigins)
         [] currentAlgorithm = LEAST_CONNECTIONS -> leastConnections(healthyOrigins)
         [] currentAlgorithm = WEIGHTED_ROUND_ROBIN ->
              weightedRoundRobin(healthyOrigins, rnd)
         [] currentAlgorithm = LATENCY_BASED -> latencyBased(healthyOrigins, context)
         [] currentAlgorithm = GEOGRAPHIC -> geographic(healthyOrigins, context)
         [] currentAlgorithm = HEALTH_SCORE -> healthScoreBased(healthyOrigins, rnd)
         [] OTHER -> roundRobin(healthyOrigins)

\* A call that nothing interleaves with.
getOptimalOrigin(context, rnd) == selectAmong(getHealthyOrigins, context, rnd)

\* A variant without the last resort: with no healthy alternative it hands
\* back the failed origin (the mutant of C27).
getFailoverOrigin_NoLastResort(failedOrigin, context, rnd) ==
  LET alternativeOrigins == SelectSeq(origins, LAMBDA o : o # failedOrigin)
      healthyAlternatives == SelectSeq(alternativeOrigins, isOriginHealthy)
  IN IF Len(healthyAlternatives) = 0
     THEN Outcome(failedOrigin, roundRobinIndex, connectionCounts)
     ELSE getOptimalOrigin(context, rnd)

getFailoverOrigin(failedOrigin, context, rnd) ==
  LET alternativeOrigins == SelectSeq(origins, LAMBDA o : o # failedOrigin)
      healthyAlternatives == SelectSeq(alternativeOrigins, isOriginHealthy)
  IN IF Len(healthyAlternatives) = 0
     THEN Outcome(IF Len(alternativeOrigins) > 0 THEN alternativeOrigins[1]
                  ELSE failedOrigin,
                  roundRobinIndex, connectionCounts)
     ELSE getOptimalOrigin(context, rnd)

\* The counters a selection leaves stay within the explored range.
WithinBounds(out, maxRR, maxConn) ==
  /\ out.roundRobinIndex <= maxRR
  /\ \A o \in DOMAIN out.connectionCounts : out.connectionCounts[o] <= maxConn

\* A request path that probes the first origin before it answers (the mutant
\* of C29).
Deliver_ProbesFirst(op, out, context, failedOrigin, maxRR, maxConn) ==
  LET probe == checkOriginHealth(origins[1], <<"true", "true", "true", "true">>, 0)
  IN /\ WithinBounds(out, maxRR, maxConn)
     /\ roundRobinIndex' = out.roundRobinIndex
     /\ connectionCounts' = out.connectionCounts
     /\ healthCache' = probe.healthCache
     /\ metrics' = probe.metrics
     /\ ret' = Ret(op, out.origin, out.threw, context.edgeColo, failedOrigin, 0)
     /\ UNCHANGED <<now, origins, asyncVars, cmVars, currentAlgorithm,
                    latencyHistory, weights, geographicMapping, recorded>>

Deliver(op, out, context, failedOrigin, maxRR, maxConn) ==
  /\ WithinBounds(out, maxRR, maxConn)
  /\ roundRobinIndex' = out.roundRobinIndex
  /\ connectionCounts' = out.connectionCounts
  /\ ret' = Ret(op, out.origin, out.threw, context.edgeColo, failedOrigin, 0)
  /\ UNCHANGED <<now, origins, asyncVars, cmVars, hcVars, currentAlgorithm, latencyHistory,
                 weights, geographicMapping, recorded>>

GetOptimalOrigin(context, rnd, maxRR, maxConn) ==
  Deliver("getOptimalOrigin", getOptimalOrigin(context, rnd), context, Undefined,
          maxRR, maxConn)

GetFailoverOrigin(failedOrigin, context, rnd, maxRR, maxConn) ==
  Deliver("getFailoverOrigin", getFailoverOrigin(failedOrigin, context, rnd),
          context, failedOrigin, maxRR, maxConn)

\* The call slots: a slot holds <<>> or the locals of a getOptimalOrigin
\* call that is suspended at  await this.getHealthyOrigins().
Slots == 1..MaxInflight
NoCalls == [s \in Slots |-> <<>>]
Suspended == {s \in DOMAIN inflight : inflight[s] # <<>>}

\* getOptimalOrigin(context) up to its await: getHealthyOrigins has no await
\* of its own, so the healthy list is that of the moment of the call.
BeginSelection(slot, context) ==
  /\ inflight[slot] = <<>>
  /\ inflight' = [inflight EXCEPT ![slot] =
                    <<[context |-> context, healthyOrigins |-> getHealthyOrigins]>>]
  /\ ret' = NoRet
  /\ UNCHANGED <<now, origins, sweep, pending, probing, cmVars, hcVars,
                 lbVars, recorded>>

\* A variant whose counter update is overwritten by the stale write of
\* another call in flight (the mutant of C28).
resumeSelection_LosesUpdate(call, rnd) ==
  LET out == selectAmong(call.healthyOrigins, call.context, rnd)
  IN IF Cardinality(Suspended) > 1
     THEN [out EXCEPT !.roundRobinIndex = roundRobinIndex,
                      !.connectionCounts = connectionCounts]
     ELSE out

\* What the continuation of a suspended call does, on the state it finds.
resumeSelection(call, rnd) ==
  selectAmong(call.healthyOrigins, call.context, rnd)

\* The continuation of the call in `slot` runs to its return.
ResumeSelection(slot, rnd, maxRR, maxConn) ==
  /\ inflight[slot] # <<>>
  /\ LET call == inflight[slot][1]
         out == resumeSelection(call, rnd)
     IN /\ WithinBounds(out, maxRR, maxConn)
        /\ roundRobinIndex' = out.roundRobinIndex
        /\ connectionCounts' = out.connectionCounts
        /\ ret' = Ret("getOptimalOrigin", out.origin, out.threw,
                      call.context.edgeColo, Undefined, 0)
  /\ inflight' = [inflight EXCEPT ![slot] = <<>>]
  /\ UNCHANGED <<now, origins, sweep, pending, probing, cmVars, hcVars, currentAlgorithm,
                 latencyHistory, weights, geographicMapping, recorded>>

RecordLatency(origin, latency, limit) ==
  LET history == Append(GetOr(latencyHistory, origin, <<>>),
                        [latency |-> latency, timestamp |-> now])
      kept == IF Len(history) > HistoryCap
              THEN SubSeq(history, Len(history) - HistoryCap + 1, Len(history))
              ELSE history
  IN /\ Len(GetOr(recorded, origin, <<>>)) < limit
     /\ latencyHistory' = MapSet(latencyHistory, origin, kept)
     /\ recorded' = MapSet(recorded, origin,
                           Append(GetOr(recorded, origin, <<>>),
                                  [latency |-> latency, timestamp |-> now]))
     /\ ret' = NoRet
     /\ UNCHANGED <<now, origins, asyncVars, cmVars, hcVars, currentAlgorithm, roundRobinIndex,
                    connectionCounts, weights, geographicMapping>>

GetAverageLatency(origin) ==
  /\ ret' = Ret("getAverageLatency", origin, FALSE, Undefined, Undefined,
                getAverageLatency(origin))
  /\ UNCHANGED <<now, origins, asyncVars, cmVars, hcVars, lbVars, recorded>>

\* A release that does not stop at zero (the mutant of C13).
ReleaseConnection_Unclamped(origin) ==
  LET current == GetOr(connectionCounts, origin, 0)
  IN /\ connectionCounts' = MapSet(connectionCounts, origin, current - 1)
     /\ ret' = Ret("releaseConnection", origin, FALSE, Undefined, Undefined, 0)
     /\ UNCHANGED <<now, origins, asyncVars, cmVars, hcVars, currentAlgorithm, roundRobinIndex,
                    latencyHistory, weights, geographicMapping, recorded>>

ReleaseConnection(origin) ==
  LET current == GetOr(connectionCounts, origin, 0)
  IN /\ connectionCounts' = MapSet(connectionCounts, origin, Max(0, current - 1))
     /\ ret' = Ret("releaseConnection", origin, FALSE, Undefined, Undefined, 0)
     /\ UNCHANGED <<now, origins, asyncVars, cmVars, hcVars, currentAlgorithm, roundRobinIndex,
                    latencyHistory, weights, geographicMapping, recorded>>

\* A setter that falls back to round-robin on an unknown name (the mutant
\* of C11).
SetAlgorithm_FallsBack(algorithm) ==
  /\ IF algorithm \in algorithms
     THEN /\ currentAlgorithm' = algorithm
          /\ ret' = Ret("setAlgorithm", Undefined, FALSE, Undefined, Undefined,
                        algorithm)
     ELSE /\ ret' = Ret("setAlgorithm", Undefined, TRUE, Undefined, Undefined,
                        algorithm)
          /\ currentAlgorithm' = ROUND_ROBIN
  /\ UNCHANGED <<now, origins, asyncVars, cmVars, hcVars, roundRobinIndex, connectionCounts,
                 latencyHistory, weights, geographicMapping, recorded>>

SetAlgorithm(algorithm) ==
  /\ IF algorithm \in algorithms
     THEN /\ currentAlgorithm' = algorithm
          /\ ret' = Ret("setAlgorithm", Undefined, FALSE, Undefined, Undefined,
                        algorithm)
     ELSE /\ ret' = Ret("setAlgorithm", Undefined, TRUE, Undefined, Undefined,
                        algorithm)
          /\ UNCHANGED currentAlgorithm
  /\ UNCHANGED <<now, origins, asyncVars, cmVars, hcVars, roundRobinIndex, connectionCounts,
                 latencyHistory, weights, geographicMapping, recorded>>

\* A setter that checks the weight but not the origin (the mutant of C12).
SetWeight_AnyOrigin(origin, weight) ==
  /\ IF weight > 0
     THEN /\ weights' = MapSet(weights, origin, weight)
          /\ ret' = Ret("setWeight", origin, FALSE, Undefined, Undefined, weight)
     ELSE /\ ret' = Ret("setWeight", origin, TRUE, Undefined, Undefined, weight)
          /\ UNCHANGED weights
  /\ UNCHANGED <<now, origins, asyncVars, cmVars, hcVars, currentAlgorithm, roundRobinIndex,
                 connectionCounts, latencyHistory, geographicMapping, recorded>>

SetWeight(origin, weight) ==
  /\ IF includes(origins, origin) /\ weight > 0
     THEN /\ weights' = MapSet(weights, origin, weight)
          /\ ret' = Ret("setWeight", origin, FALSE, Undefined, Undefined, weight)
     ELSE /\ ret' = Ret("setWeight", origin, TRUE, Undefined, Undefined, weight)
          /\ UNCHANGED weights
  /\ UNCHANGED <<now, origins, asyncVars, cmVars, hcVars, currentAlgorithm, roundRobinIndex,
                 connectionCounts, latencyHistory, geographicMapping, recorded>>

AddGeographicMapping(edgeColo, origin) ==
  /\ IF includes(origins, origin)
     THEN /\ geographicMapping' = MapSet(geographicMapping, edgeColo, origin)
          /\ ret' = Ret("addGeographicMapping", origin, FALSE, edgeColo, Undefined, 0)
     ELSE /\ ret' = Ret("addGeographicMapping", origin, TRUE, edgeColo, Undefined, 0)
          /\ UNCHANGED geographicMapping
  /\ UNCHANGED <<now, origins, asyncVars, cmVars, hcVars, currentAlgorithm, roundRobinIndex,
                 connectionCounts, latencyHistory, weights, recorded>>

\* ------------------------------------------------------------- CacheManager
\* A response is the facts the cache reads from it: the status, the headers
\* content-type, cache-control, authorization, set-cookie, content-length
\* and expires, and the length of its body.  A header that is absent reads
\* as Undefined (Headers.get gives null); authorization and set-cookie, when
\* present, carry a non-empty value and are recorded as a flag.  A numeric
\* header (content-length, expires) is <<n>> when present and <<>> when
\* absent; expires holds the time, in ms, that new Date(expires).getTime()
\* yields.  A cache-control value is the sequence of its directives, each a
\* name and an argument (<<n>>, or <<>> when it has none).
Directive(name, arg) == [name |-> name, arg |-> arg]

\* cacheControl.includes(name)
HasDirective(cacheControl, name) ==
  \E i \in 1..Len(cacheControl) : cacheControl[i].name = name

\* cacheControl.match(/<name>=(\d+)/): <<n>> for the argument n of the first
\* directive of that name, <<>> when nothing matches.
DirectiveArg(cacheControl, name) ==
  LET hits == SelectSeq(cacheControl,
                        LAMBDA d : d.name = name /\ d.arg # <<>>)
  IN IF Len(hits) = 0 THEN <<>> ELSE hits[1].arg

\* The strategy table, in the order Object.entries walks it.
cacheStrategies ==
  <<[type |-> "text/html", ttl |-> 3600],
    [type |-> "text/css", ttl |-> 86400],
    [type |-> "application/javascript", ttl |-> 86400],
    [type |-> "application/json", ttl |-> 1800],
    [type |-> "image/", ttl |-> 604800],
    [type |-> "font/", ttl |-> 2592000],
    [type |-> "default", ttl |-> 3600]>>

\* contentType.startsWith(type), over the content types explored.
StartsWith(contentType, type) ==
  <<contentType, type>> \in
    {<<"text/html", "text/html">>,
     <<"text/html; charset=utf-8", "text/html">>,
     <<"application/json", "application/json">>,
     <<"image/png", "image/">>,
     <<"font/woff2", "font/">>,
     <<"default", "default">>}

getCacheStrategy(contentType) ==
  LET hits == SelectSeq(cacheStrategies,
                        LAMBDA st : StartsWith(contentType, st.type))
  IN IF Len(hits) = 0 THEN cacheStrategies[Len(cacheStrategies)] ELSE hits[1]

\* response.ok
ResponseOk(response) == response.status \in 200..299

\* parseInt(response.headers.get('content-length') || '0')
DeclaredLength(response) ==
  IF response.contentLength = <<>> THEN 0 ELSE response.contentLength[1]

\* A variant that does not look at set-cookie (the mutant of C19).
isCacheable_IgnoresCookie(response, _strategy) ==
  IF ~ResponseOk(response) /\ response.status # 404 THEN FALSE
  ELSE IF HasDirective(response.cacheControl, "no-cache")
          \/ HasDirective(response.cacheControl, "no-store") THEN FALSE
  ELSE IF response.authorization THEN FALSE
  ELSE IF DeclaredLength(response) > SizeLimit THEN FALSE
  ELSE TRUE

isCacheable(response, _strategy) ==
  IF ~ResponseOk(response) /\ response.status # 404 THEN FALSE
  ELSE IF HasDirective(response.cacheControl, "no-cache")
          \/ HasDirective(response.cacheControl, "no-store") THEN FALSE
  ELSE IF response.authorization \/ response.setCookie THEN FALSE
  ELSE IF DeclaredLength(response) > SizeLimit THEN FALSE
  ELSE TRUE

Min(a, b) == IF a <= b THEN a ELSE b

\* A variant whose strategy default is not capped by maxTTL (the mutant of
\* C21).
calculateTTL_DefaultUncapped(response, strategy) ==
  LET maxAgeMatch == DirectiveArg(response.cacheControl, "max-age")
      ttl == (response.expires[1] - now) \div 1000
  IN IF maxAgeMatch # <<>> THEN Min(maxAgeMatch[1], maxTTL)
     ELSE IF response.expires # <<>> /\ ttl > 0 THEN Min(ttl, maxTTL)
     ELSE strategy.ttl

calculateTTL(response, strategy) ==
  LET maxAgeMatch == DirectiveArg(response.cacheControl, "max-age")
      ttl == (response.expires[1] - now) \div 1000
  IN IF maxAgeMatch # <<>> THEN Min(maxAgeMatch[1], maxTTL)
     ELSE IF response.expires # <<>> /\ ttl > 0 THEN Min(ttl, maxTTL)
     ELSE Min(strategy.ttl, maxTTL)

extractMaxAge(response) == DirectiveArg(response.cacheControl, "max-age")

extractStaleWhileRevalidate(response) ==
  LET staleMatch == DirectiveArg(response.cacheControl, "stale-while-revalidate")
  IN IF staleMatch = <<>> THEN 0 ELSE staleMatch[1]

\* String.prototype.charCodeAt, for the characters of the vary string.
charCodeAt ==
  [c \in {"a", "b", "c", "d", "e", "i", "k", "l", "m", "n", "o", "p", "r",
          "s", "t", "u", "v", "w", "y", ":", "|", "A", "B", "G", "H", "L",
          "R", "S", "U", "X", "Y", "D", "E", "I", "M", "N", "P", "T"} |->
     CASE c = "a" -> 97 [] c = "b" -> 98 [] c = "c" -> 99 [] c = "d" -> 100
       [] c = "e" -> 101 [] c = "i" -> 105 [] c = "k" -> 107 [] c = "l" -> 108
       [] c = "m" -> 109 [] c = "n" -> 110 [] c = "o" -> 111 [] c = "p" -> 112
       [] c = "r" -> 114 [] c = "s" -> 115 [] c = "t" -> 116 [] c = "u" -> 117
       [] c = "v" -> 118 [] c = "w" -> 119 [] c = "y" -> 121 [] c = ":" -> 58
       [] c = "|" -> 124 [] c = "A" -> 65 [] c = "B" -> 66 [] c = "D" -> 68
       [] c = "G" -> 71 [] c = "H" -> 72 [] c = "L" -> 76 [] c = "R" -> 82
       [] c = "S" -> 83 [] c = "U" -> 85 [] c = "X" -> 88 [] c = "Y" -> 89
       [] c = "E" -> 69 [] c = "I" -> 73 [] c = "M" -> 77 [] c = "N" -> 78
       [] c = "P" -> 80 [] c = "T" -> 84]

\* The characters of the strings that enter the vary string.
Chars(str) ==
  CASE str = "colo:" -> <<"c", "o", "l", "o", ":">>
    [] str = "|country:" -> <<"|", "c", "o", "u", "n", "t", "r", "y", ":">>
    [] str = "|device:" -> <<"|", "d", "e", "v", "i", "c", "e", ":">>
    [] str = "LAX" -> <<"L", "A", "X">>
    [] str = "LHR" -> <<"L", "H", "R">>
    [] str = "SYD" -> <<"S", "Y", "D">>
    [] str = "ADD" -> <<"A", "D", "D">>
    [] str = "PIT" -> <<"P", "I", "T">>
    [] str = "US" -> <<"U", "S">>
    [] str = "GB" -> <<"G", "B">>
    [] str = "AU" -> <<"A", "U">>
    [] str = "IM" -> <<"I", "M">>
    [] str = "NE" -> <<"N", "E">>
    [] str = "unknown" -> <<"u", "n", "k", "n", "o", "w", "n">>
    [] str = "mobile" -> <<"m", "o", "b", "i", "l", "e">>
    [] str = "tablet" -> <<"t", "a", "b", "l", "e", "t">>
    [] str = "bot" -> <<"b", "o", "t">>
    [] str = "desktop" -> <<"d", "e", "s", "k", "t", "o", "p">>

\* A 32-bit integer is kept as <<high, low>> 16-bit halves of its two's
\* complement.
Half == 65536

\* hash = ((hash << 5) - hash) + char;  hash = hash & hash
HashStep(hash, char) ==
  LET low == 31 * hash[2] + char
      high == 31 * hash[1] + low \div Half
  IN <<high % Half, low % Half>>

\* The loop of simpleHash over the characters from position i on; each
\* intermediate hash is a 32-bit integer.
RECURSIVE HashFold(_, _, _)
HashFold(hash, chars, i) ==
  IF i > Len(chars) THEN hash
  ELSE LET next == HashStep(hash, charCodeAt[chars[i]])
       IN IF next \in (0..(Half - 1)) \X (0..(Half - 1))
          THEN HashFold(next, chars, i + 1)
          ELSE hash

\* Math.abs of the signed value of a 32-bit integer
Abs32(hash) ==
  IF hash[1] < Half \div 2 THEN hash
  ELSE <<(Half - 1 - hash[1] + (IF hash[2] = 0 THEN 1 ELSE 0)) % Half,
         (Half - hash[2]) % Half>>

\* simpleHash(str); toString(36) is one-to-one and left out.
simpleHash(chars) == Abs32(HashFold(<<0, 0>>, chars, 1))

\* The marker words the lower-cased user agent contains.
Markers(userAgent) ==
  CASE userAgent = "Mozilla/5.0 (iPhone) Mobile Safari" -> {"mobile", "iphone"}
    [] userAgent = "Mozilla/5.0 (Linux; Android 13) Tablet" -> {"android", "tablet"}
    [] userAgent = "Mozilla/5.0 (iPad) Safari" -> {"ipad"}
    [] userAgent = "Googlebot/2.1" -> {"bot"}
    [] userAgent = "Mozilla/5.0 (Windows NT 10.0) Firefox" -> {}

categorizeUserAgent(userAgent) ==
  IF userAgent = Undefined THEN "unknown"
  ELSE LET ua == Markers(userAgent)
       IN IF ua \cap {"mobile", "android", "iphone"} # {} THEN "mobile"
          ELSE IF ua \cap {"tablet", "ipad"} # {} THEN "tablet"
          ELSE IF ua \cap {"bot", "crawler", "spider"} # {} THEN "bot"
          ELSE "desktop"

\* A url is its host and its path with the query; the base key is the
\* latter.
Url(host, pathAndSearch) == [host |-> host, pathAndSearch |-> pathAndSearch]

generateCacheKey(url, context) ==
  LET varyString == Chars("colo:") \o Chars(context.edgeColo)
                    \o Chars("|country:") \o Chars(context.country)
                    \o Chars("|device:")
                    \o Chars(categorizeUserAgent(context.userAgent))
  IN <<"cache", simpleHash(varyString), url.pathAndSearch>>

\* What a CacheManager call hands back: `value` is what it returned, `put`
\* and `deleted` tell whether it called kvStore.put and kvStore.delete, and
\* `backendError` whether a backend call of it failed.
CacheRet(op, url, context, response, value, put, deleted, error) ==
  [op |-> op, origin |-> Undefined, threw |-> FALSE,
   edgeColo |-> context.edgeColo, failedOrigin |-> Undefined, value |-> value,
   url |-> url, context |-> context, response |-> response, put |-> put,
   deleted |-> deleted, backendError |-> error]

\* A variant that lets the error escape to the caller (the mutant of C26).
catchSet_Rethrows(url, response, context) ==
  [CacheRet("set", url, context, response, FALSE, TRUE, FALSE, TRUE)
     EXCEPT !.threw = TRUE]

\* The catch block of set(): the error is logged and false returned.
catchSet(url, response, context) ==
  CacheRet("set", url, context, response, FALSE, TRUE, FALSE, TRUE)

\* The catch block of get(): the error is logged and null returned.
catchGet(url, context) ==
  CacheRet("get", url, context, Undefined, <<>>, FALSE, FALSE, TRUE)

\* The cacheData that set() serialises, with the expirationTtl it is put
\* under.
cacheData(url, response, context) ==
  LET contentType == IF response.contentType = Undefined THEN "default"
                     ELSE response.contentType
      cacheStrategy == getCacheStrategy(contentType)
      ttl == calculateTTL(response, cacheStrategy)
      maxAgeMatch == extractMaxAge(response)
      maxAge == IF maxAgeMatch = <<>> \/ maxAgeMatch = <<0>> THEN ttl
                ELSE maxAgeMatch[1]
  IN [url |-> url,
      bodySize |-> response.bodySize,
      status |-> response.status,
      headers |-> response,
      contentType |-> contentType,
      cachedAt |-> now,
      expiresAt |-> now + ttl * 1000,
      freshUntil |-> now + maxAge * 1000,
      staleWhileRevalidate |-> extractStaleWhileRevalidate(response),
      cacheStrategy |-> cacheStrategy,
      expirationTtl |-> Min(ttl, maxTTL)]

\* set(url, response, context); the backend accepts the put iff backendUp:
\* otherwise kvStore.put rejects (store unavailable, value refused).
CacheSet(url, response, context, backendUp) ==
  LET contentType == IF response.contentType = Undefined THEN "default"
                     ELSE response.contentType
      cacheStrategy == getCacheStrategy(contentType)
      cacheKey == generateCacheKey(url, context)
  IN /\ IF ~isCacheable(response, cacheStrategy)
        THEN /\ ret' = CacheRet("set", url, context, response, FALSE, FALSE,
                                FALSE, FALSE)
             /\ UNCHANGED kvStore
        ELSE IF ~backendUp
        THEN /\ ret' = catchSet(url, response, context)
             /\ UNCHANGED kvStore
        ELSE /\ kvStore' = MapSet(kvStore, cacheKey,
                                  cacheData(url, response, context))
             /\ ret' = CacheRet("set", url, context, response, TRUE, TRUE,
                                FALSE, FALSE)
     /\ UNCHANGED <<now, origins, asyncVars, hcVars, lbVars, recorded, maxTTL>>

\* The response get() rebuilds from an entry.
CachedResponse(cachedData, cacheKey) ==
  [status |-> cachedData.status,
   headers |-> cachedData.headers,
   bodySize |-> cachedData.bodySize,
   cacheStatus |-> "HIT",
   cacheKey |-> cacheKey,
   cacheAge |-> (now - cachedData.cachedAt) \div 1000,
   cacheTTL |-> (cachedData.expiresAt - now) \div 1000,
   stale |-> now > cachedData.freshUntil]

\* A variant that already counts an entry as expired at its expiry time (the
\* mutant of C23).
Expired_AtExpiry(cachedData) == now >= cachedData.expiresAt

\* Date.now() > cachedData.expiresAt
Expired(cachedData) == now > cachedData.expiresAt

\* get(url, context); the backend answers the get iff backendUp: otherwise
\* kvStore.get(cacheKey, 'json') rejects (store unavailable, or the stored
\* value does not parse).  The value is <<>> for a miss (null) and
\* <<response>> for a hit.
CacheGet(url, context, backendUp) ==
  LET cacheKey == generateCacheKey(url, context)
  IN /\ IF ~backendUp
        THEN /\ ret' = catchGet(url, context)
             /\ UNCHANGED kvStore
        ELSE IF cacheKey \notin DOMAIN kvStore
        THEN /\ ret' = CacheRet("get", url, context, Undefined, <<>>,
                                FALSE, FALSE, FALSE)
             /\ UNCHANGED kvStore
        ELSE IF Expired(kvStore[cacheKey])
        THEN /\ kvStore' = [k \in DOMAIN kvStore \ {cacheKey} |-> kvStore[k]]
             /\ ret' = CacheRet("get", url, context, Undefined, <<>>,
                                FALSE, TRUE, FALSE)
        ELSE /\ ret' = CacheRet("get", url, context, Undefined,
                                <<CachedResponse(kvStore[cacheKey], cacheKey)>>,
                                FALSE, FALSE, FALSE)
             /\ UNCHANGED kvStore
     /\ UNCHANGED <<now, origins, asyncVars, hcVars, lbVars, recorded, maxTTL>>

\* ------------------------------------------------------------------- worker
\* CONFIG.FAILOVER_TIMEOUT: the origin fetch is aborted after this many ms.
FailoverTimeout == 5000

\* A retry that is granted for the first timeout of a request only (the
\* mutant of C35).
retryOnFailover_Once(failoverOrigin, origin, hops) ==
  failoverOrigin # origin /\ hops = 0

\* if (failoverOrigin !== origin): the test that lets the request move on to
\* another origin; the number of origins tried so far plays no part in it.
retryOnFailover(failoverOrigin, origin, hops) == failoverOrigin # origin

\* A catch block that asks for a failover origin whatever the error was (the
\* mutant of C36).
wantsFailover_AnyError(fetched) == fetched.kind = "error"

\* if (error.name === 'AbortError')
wantsFailover(fetched) == fetched.kind = "error" /\ fetched.error = "AbortError"

\* One run of fetchWithOptimizations(request, origin, env, context), the
\* request having gone through `hops` origins already, its fetch ending as
\* `fetched`: what it hands back (a response, an error, or the origin of
\* the recursive call) and the counters the failover selection leaves.
fetchWithOptimizations(origin, context, hops, fetched, rnd) ==
  IF fetched.kind = "response"
  THEN [done |-> TRUE, threw |-> FALSE, error |-> "", asked |-> FALSE,
        failover |-> Undefined,
        lb |-> Outcome(Undefined, roundRobinIndex, connectionCounts)]
  ELSE IF ~wantsFailover(fetched)
  THEN [done |-> TRUE, threw |-> TRUE, error |-> fetched.error, asked |-> FALSE,
        failover |-> Undefined,
        lb |-> Outcome(Undefined, roundRobinIndex, connectionCounts)]
  ELSE LET out == getFailoverOrigin(origin, context, rnd)
       IN IF out.threw
          THEN [done |-> TRUE, threw |-> TRUE, error |-> "ReferenceError",
                asked |-> TRUE, failover |-> Undefined, lb |-> out]
          ELSE IF retryOnFailover(out.origin, origin, hops)
          THEN [done |-> FALSE, threw |-> FALSE, error |-> "", asked |-> TRUE,
                failover |-> out.origin, lb |-> out]
          ELSE [done |-> TRUE, threw |-> TRUE, error |-> fetched.error,
                asked |-> TRUE, failover |-> out.origin, lb |-> out]

\* The handler forwards a request: it selects targetOrigin and calls
\* fetchWithOptimizations, which runs up to  await fetch(...).  A selection
\* that throws ends the request with the handler's 500 response.
ForwardRequest(context, rnd, maxRR, maxConn) ==
  LET out == getOptimalOrigin(context, rnd)
  IN /\ pending = <<>>
     /\ WithinBounds(out, maxRR, maxConn)
     /\ roundRobinIndex' = out.roundRobinIndex
     /\ connectionCounts' = out.connectionCounts
     /\ pending' = IF out.threw THEN <<>>
                   ELSE <<[origin |-> out.origin, context |-> context,
                           trail |-> <<out.origin>>]>>
     /\ ret' = Ret("getOptimalOrigin", out.origin, out.threw, context.edgeColo,
                   Undefined, 0)
     /\ UNCHANGED <<now, origins, inflight, sweep, probing, cmVars, hcVars,
                    currentAlgorithm, latencyHistory, weights,
                    geographicMapping, recorded>>

\* The awaited fetch settles and fetchWithOptimizations runs on: to its
\* return or throw, or into the recursive call and up to that call's
\* fetch.  `trail` lists the origins the request has been sent to; at most
\* maxHops timeouts are explored.
FetchSettles(fetched, rnd, maxRR, maxConn, maxHops) ==
  /\ pending # <<>>
  /\ LET call == pending[1]
         hops == Len(call.trail) - 1
         step == fetchWithOptimizations(call.origin, call.context, hops,
                                        fetched, rnd)
     IN /\ WithinBounds(step.lb, maxRR, maxConn)
        /\ ~step.done => hops < maxHops
        /\ now + fetched.ms <= maxHops * FailoverTimeout
        /\ now' = now + fetched.ms
        /\ roundRobinIndex' = step.lb.roundRobinIndex
        /\ connectionCounts' = step.lb.connectionCounts
        /\ pending' = IF step.done THEN <<>>
                      ELSE <<[origin |-> step.failover, context |-> call.context,
                              trail |-> Append(call.trail, step.failover)]>>
        /\ ret' = [op |-> "fetchWithOptimizations", origin |-> call.origin,
                   threw |-> step.threw, edgeColo |-> call.context.edgeColo,
                   failedOrigin |-> Undefined, value |-> hops,
                   fetched |-> fetched, error |-> step.error,
                   asked |-> step.asked, failover |-> step.failover,
                   retried |-> ~step.done]
  /\ UNCHANGED <<origins, inflight, sweep, probing, cmVars, hcVars,
                 currentAlgorithm, latencyHistory, weights, geographicMapping,
                 recorded>>

\* ---------------------------------------------------------- specifications
\* State after  new HealthChecker(config),  new LoadBalancer(list, hc)  and
\* new CacheManager(kvStore, config),  and after the recordLatency calls, if
\* any, that left `history`.  config.MAX_CACHE_TTL is <<n>>, or <<>> when the
\* configuration does not set it.
Configured(list, history, MAX_CACHE_TTL) ==
  /\ now = 0
  /\ origins = list
  /\ healthCache = EmptyMap
  /\ metrics = <<>>
  /\ currentAlgorithm = HEALTH_SCORE
  /\ roundRobinIndex = 0
  /\ connectionCounts = initializeConnectionCounts(list)
  /\ latencyHistory = history
  /\ weights = initializeWeights(list)
  /\ geographicMapping = initializeGeographicMapping(list)
  /\ ret = NoRet
  /\ recorded = history
  /\ kvStore = EmptyMap
  /\ maxTTL = IF MAX_CACHE_TTL = <<>> \/ MAX_CACHE_TTL = <<0>> THEN DefaultMaxTTL
              ELSE MAX_CACHE_TTL[1]
  /\ inflight = NoCalls
  /\ sweep = {}
  /\ pending = <<>>
  /\ probing = <<>>

Constructed(list, history) == Configured(list, history, <<>>)

Init == Constructed(mockOrigins, EmptyMap)

\* Inputs explored.
AllPass == <<"true", "true", "true", "true">>
TwoFail == <<"rejected", "false", "true", "true">>
ProbeOutcomes == {AllPass, TwoFail}
Context(edgeColo, country) == [edgeColo |-> edgeColo, country |-> country]
Contexts == {Context("LAX", "US"), Context("SYD", "AU")}

Probe == \E o \in Range(origins), r \in ProbeOutcomes : CheckOriginHealth(o, r, 0)

\* Spec: the request path under every algorithm and every set of healthy
\* origins, the clock standing still.
Select == \E c \in Contexts, rnd \in Randoms :
            GetOptimalOrigin(c, rnd, BaseRR, BaseConn)
Failover == \E f \in Range(origins), c \in Contexts, rnd \in Randoms :
              GetFailoverOrigin(f, c, rnd, BaseRR, BaseConn)
ChooseAlgorithm ==
  \E a \in algorithms \cup {"invalid_algorithm", "ROUND_ROBIN"} : SetAlgorithm(a)

Next == Probe \/ Select \/ Failover \/ ChooseAlgorithm

Spec == Init /\ [][Next]_vars

\* SpecRoundRobin: round-robin selections over every healthy set, the clock
\* moving so that healthy origins come to differ in health score.
HalfInterval == CheckInterval \div 2
Advance == Tick(HalfInterval, MaxTicks * HalfInterval)
SelectRoundRobin == \E c \in Contexts, rnd \in Randoms :
                      GetOptimalOrigin(c, rnd, MaxRR, BaseConn)
UseRoundRobin == \E a \in {ROUND_ROBIN, "invalid_algorithm"} : SetAlgorithm(a)

NextRoundRobin == Advance \/ Probe \/ SelectRoundRobin \/ UseRoundRobin

SpecRoundRobin == Init /\ [][NextRoundRobin]_vars

\* SpecLeastConnections: least-connections selections and releases.
SelectLeastConnections == \E c \in Contexts, rnd \in Randoms :
                            GetOptimalOrigin(c, rnd, BaseRR, MaxConn)
UseLeastConnections ==
  \E a \in {LEAST_CONNECTIONS, "invalid_algorithm"} : SetAlgorithm(a)
Release == \E o \in Range(origins) : ReleaseConnection(o)

NextLeastConnections ==
  Probe \/ SelectLeastConnections \/ UseLeastConnections \/ Release

SpecLeastConnections == Init /\ [][NextLeastConnections]_vars

\* SpecWeighted: weighted selections under every weight assignment.
SelectWeighted == \E c \in Contexts, rnd \in Randoms :
                    GetOptimalOrigin(c, rnd, BaseRR, BaseConn)
UseWeighted ==
  \E a \in {WEIGHTED_ROUND_ROBIN, "invalid_algorithm"} : SetAlgorithm(a)
AdjustWeight == \E o \in Range(origins) \cup {"unknown"}, w \in 0..MaxWeight :
                  SetWeight(o, w)

NextWeighted == Probe \/ SelectWeighted \/ UseWeighted \/ AdjustWeight

SpecWeighted == Init /\ [][NextWeighted]_vars

\* SpecGeographic: geographic selections for mapped and unmapped colos.
GeoContexts == {Context("LAX", "US"), Context("LHR", "GB"), Context("SYD", "AU")}
SelectGeographic == \E c \in GeoContexts, rnd \in Randoms :
                      GetOptimalOrigin(c, rnd, BaseRR, BaseConn)
UseGeographic == \E a \in {GEOGRAPHIC, "invalid_algorithm"} : SetAlgorithm(a)
MapColo == \E c \in {"LAX", "SYD"}, o \in {"origin2", "origin3", "unknown"} :
             AddGeographicMapping(c, o)

NextGeographic == Probe \/ SelectGeographic \/ UseGeographic \/ MapColo

SpecGeographic == Init /\ [][NextGeographic]_vars

\* SpecHealthScore: the default algorithm over origins whose probes differ
\* in outcome and in duration (none, a quarter of the response-time
\* threshold, the whole threshold), hence in health score.
ProbeElapsed == {0, ResponseTimeThreshold \div 4, ResponseTimeThreshold}
TimedProbe == \E o \in Range(origins), r \in ProbeOutcomes, d \in ProbeElapsed :
                CheckOriginHealth(o, r, d)
SelectHealthScore == \E c \in Contexts, rnd \in Randoms :
                       GetOptimalOrigin(c, rnd, BaseRR, BaseConn)

NextHealthScore == TimedProbe \/ SelectHealthScore

SpecHealthScore == Init /\ [][NextHealthScore]_vars

\* SpecLatencyBased: latency-based selections over recorded latencies.
Latencies == {100, 200, 300}
SelectLatencyBased == \E c \in Contexts, rnd \in Randoms :
                        GetOptimalOrigin(c, rnd, BaseRR, BaseConn)
UseLatencyBased == \E a \in {LATENCY_BASED, "invalid_algorithm"} : SetAlgorithm(a)
RecordTwo == \E o \in {"origin1", "origin2"}, l \in {100, 300} :
               RecordLatency(o, l, MaxSamples - 1)

NextLatencyBased == Probe \/ SelectLatencyBased \/ UseLatencyBased \/ RecordTwo

SpecLatencyBased == Init /\ [][NextLatencyBased]_vars

\* SpecLatency: recordLatency and getAverageLatency for one origin while the
\* clock moves in steps of five minutes.  A behaviour starts either right
\* after construction or after recordLatency("origin1", l) followed by
\* HistoryCap - 2 calls recordLatency("origin1", 100), all at time 0: the
\* state in which the history is one sample short of its capacity.
Sample(latency, timestamp) == [latency |-> latency, timestamp |-> timestamp]
PrefillLength == HistoryCap - 1
Prefill(l) == [i \in 1..PrefillLength |-> IF i = 1 THEN Sample(l, 0)
                                          ELSE Sample(100, 0)]

InitLatency ==
  \E history \in {EmptyMap} \cup {[o \in {"origin1"} |-> Prefill(l)] : l \in Latencies} :
    Constructed(mockOrigins, history)

LatencyStep == LatencyWindow \div 2
AdvanceLatency == Tick(LatencyStep, MaxLatencyTicks * LatencyStep)
SampleLimit(origin) ==
  IF Len(GetOr(recorded, origin, <<>>)) >= PrefillLength
  THEN PrefillLength + MaxSamples
  ELSE MaxSamples
Record == \E l \in Latencies : RecordLatency("origin1", l, SampleLimit("origin1"))
AverageLatency == \E o \in {"origin1", "origin2"} : GetAverageLatency(o)

NextLatency == AdvanceLatency \/ Record \/ AverageLatency

SpecLatency == InitLatency /\ [][NextLatency]_vars

\* SpecAdmin: the administrative setters, with valid and invalid arguments,
\* between least-connections selections and releases over two origins that
\* pass their probes.
ProbeTwo == \E o \in {"origin1", "origin2"} : CheckOriginHealth(o, AllPass, 0)
SelectAdmin == \E c \in Contexts, rnd \in Randoms :
                 GetOptimalOrigin(c, rnd, BaseRR, MaxConn)
UseAdmin == \E a \in {LEAST_CONNECTIONS, "invalid_algorithm"} : SetAlgorithm(a)
ReleaseAdmin == \E o \in {"origin1", "origin2"} : ReleaseConnection(o)
WeighAdmin == \E o \in {"origin1", "unknown"}, w \in (0 - 1)..MaxWeight :
                SetWeight(o, w)
MapAdmin == \E o \in {"origin2", "unknown"} : AddGeographicMapping("SYD", o)

NextAdmin ==
  ProbeTwo \/ SelectAdmin \/ UseAdmin \/ ReleaseAdmin \/ WeighAdmin \/ MapAdmin

SpecAdmin == Init /\ [][NextAdmin]_vars

\* SpecStaleness: isOriginHealthy asked about probed and unprobed origins
\* while the clock moves in steps of one probe interval.
AdvanceInterval == Tick(CheckInterval, MaxStaleTicks * CheckInterval)
ProbeStale == \E o \in {"origin1", "origin2"}, r \in ProbeOutcomes :
                CheckOriginHealth(o, r, 0)
AskHealthy == \E o \in Range(origins) : IsOriginHealthy(o)

NextStaleness == AdvanceInterval \/ ProbeStale \/ AskHealthy

SpecStaleness == Init /\ [][NextStaleness]_vars

\* SpecChecks: one probe per origin, the four checks settling in each of the
\* 81 ways (fulfilled with true, fulfilled with false, rejected).
CheckOutcomes == [1..4 -> {"true", "false", "rejected"}]
ProbeEvery == \E o \in {"origin1", "origin2"}, r \in CheckOutcomes :
                AwaitOriginHealth(o, r, 0, MaxProbes)

NextChecks == ProbeEvery \/ AskHealthy

SpecChecks == Init /\ [][NextChecks]_vars

\* SpecCache: repeated checkOriginHealth calls for two origins while the
\* clock moves in steps of a sixth of the probe interval; a probe takes no
\* time or one such step.
CacheStep == CheckInterval \div 6
AdvanceCache == Tick(CacheStep, MaxCacheTicks * CacheStep)
ProbeCached == \E o \in {"origin1", "origin2"}, r \in ProbeOutcomes,
                  d \in {0, CacheStep} :
                 AwaitOriginHealth(o, r, d, MaxProbes)

NextCache == AdvanceCache \/ ProbeCached

SpecCache == Init /\ [][NextCache]_vars

\* SpecScore: health scores read through getOriginsByHealth while the clock
\* moves in steps of half the five-interval error window.  A behaviour
\* starts right after construction, or after origin1 failed as many probes
\* in a row, half an interval apart, as make the recent-error term clamp
\* at 0.
ClampingFailures == 100 \div 20 + 1
FailureTimes == [i \in 1..ClampingFailures |-> (i - 1) * HalfInterval]
FailedSnapshot(t) ==
  [healthy |-> FALSE, checks |-> [i \in 1..4 |-> CheckPassed(TwoFail, i)],
   timestamp |-> t, responseTime |-> 0]

InitScore ==
  \/ Constructed(mockOrigins, EmptyMap)
  \/ /\ now = FailureTimes[ClampingFailures]
     /\ origins = mockOrigins
     /\ healthCache = [o \in {"origin1"} |->
                         [health |-> FailedSnapshot(now), timestamp |-> now]]
     /\ metrics = <<[origin |-> "origin1", totalChecks |-> ClampingFailures,
                     successfulChecks |-> 0, totalResponseTime |-> 0,
                     errors |-> FailureTimes]>>
     /\ currentAlgorithm = HEALTH_SCORE
     /\ roundRobinIndex = 0
     /\ connectionCounts = initializeConnectionCounts(mockOrigins)
     /\ latencyHistory = EmptyMap
     /\ weights = initializeWeights(mockOrigins)
     /\ geographicMapping = initializeGeographicMapping(mockOrigins)
     /\ ret = NoRet
     /\ recorded = EmptyMap
     /\ kvStore = EmptyMap
     /\ maxTTL = DefaultMaxTTL
     /\ inflight = NoCalls
     /\ sweep = {}
     /\ pending = <<>>
     /\ probing = <<>>

ScoreStep == (CheckInterval * 5) \div 2
AdvanceScore ==
  Tick(ScoreStep, FailureTimes[ClampingFailures] + MaxScoreTicks * ScoreStep)
ScoreProbeLimit ==
  IF TotalProbes >= ClampingFailures THEN ClampingFailures + MaxProbes - 1
  ELSE MaxProbes - 1
SlowProbe == (ResponseTimeThreshold * 3) \div 2
ProbeScored == \E o \in {"origin1", "origin2"}, r \in ProbeOutcomes,
                  d \in {0, SlowProbe} :
                 AwaitOriginHealth(o, r, d, ScoreProbeLimit)
ReadScores == GetOriginsByHealth

NextScore == AdvanceScore \/ ProbeScored \/ ReadScores

SpecScore == InitScore /\ [][NextScore]_vars

\* SpecStore: set() offered responses of every status class, cache-control,
\* credential and size, and get() of what it stored.  A response either
\* declares its body length in content-length or, like a chunked one, has no
\* such header.
PageUrl == Url("example.com", "/index.html")
RequestContext(edgeColo, country, userAgent) ==
  [edgeColo |-> edgeColo, country |-> country, userAgent |-> userAgent]
DesktopLAX == RequestContext("LAX", "US", "Mozilla/5.0 (Windows NT 10.0) Firefox")
PhoneSYD == RequestContext("SYD", "AU", "Mozilla/5.0 (iPhone) Mobile Safari")

Response(status, type, control, auth, cookie, length, size, expires) ==
  [status |-> status, contentType |-> type, cacheControl |-> control,
   authorization |-> auth, setCookie |-> cookie, contentLength |-> length,
   bodySize |-> size, expires |-> expires]

BodySizes == {1024, SizeLimit, SizeLimit + 1}
Bodies == {[contentLength |-> <<n>>, bodySize |-> n] : n \in BodySizes}
            \cup {[contentLength |-> <<>>, bodySize |-> n] : n \in BodySizes}
StoreResponses ==
  {Response(st, "text/html", cc, auth, cookie, b.contentLength, b.bodySize, <<>>) :
     st \in {200, 301, 404, 500},
     cc \in {<<>>, <<Directive("no-store", <<>>)>>,
             <<Directive("no-cache", <<>>)>>,
             <<Directive("public", <<>>), Directive("max-age", <<60>>)>>},
     auth \in BOOLEAN, cookie \in BOOLEAN, b \in Bodies}

Store == \E r \in StoreResponses : CacheSet(PageUrl, r, DesktopLAX, TRUE)
StoreUnavailable == \E r \in {x \in StoreResponses : x.status = 200} :
                      CacheSet(PageUrl, r, DesktopLAX, FALSE)
Lookup == \E c \in {DesktopLAX, PhoneSYD}, up \in BOOLEAN :
            CacheGet(PageUrl, c, up)

NextStore == Store \/ StoreUnavailable \/ Lookup

SpecStore == Init /\ [][NextStore]_vars

\* SpecTTL: set() offered cacheable responses that differ in content type,
\* max-age and Expires (absent, ten seconds ago, in half a second, in two
\* minutes, in three days), under the default and under a configured maximum
\* TTL.
ConfiguredMaxTTL == 1800
InitTTL ==
  \E c \in {<<>>, <<ConfiguredMaxTTL>>} : Configured(mockOrigins, EmptyMap, c)

ExpiresOffsets == {0 - 10000, 500, 120000, 3 * 86400 * 1000}
TTLResponses ==
  {Response(200, ct, cc, FALSE, FALSE, <<1024>>, 1024, e) :
     ct \in {"text/html", "text/html; charset=utf-8", "application/json",
             "image/png", "font/woff2", Undefined},
     cc \in {<<>>, <<Directive("public", <<>>)>>,
             <<Directive("max-age", <<60>>)>>,
             <<Directive("public", <<>>), Directive("max-age", <<100000>>)>>},
     e \in {<<>>} \cup {<<now + d>> : d \in ExpiresOffsets}}

StoreTTL == \E r \in TTLResponses : CacheSet(PageUrl, r, DesktopLAX, TRUE)
LookupTTL == CacheGet(PageUrl, DesktopLAX, TRUE)

NextTTL == StoreTTL \/ LookupTTL

SpecTTL == InitTTL /\ [][NextTTL]_vars

\* SpecFreshness: pages stored for the desktop bucket and looked up from two
\* buckets while the clock moves in steps of 30 s, under the default maximum
\* TTL and under one of 60 s.  The responses live for 60 or 90 s (max-age, or
\* an Expires header 90 s ahead) or for the strategy default, with and
\* without a stale-while-revalidate window.
FreshStep == 30 * 1000
ShortMaxTTL == 60
InitFreshness ==
  \E c \in {<<>>, <<ShortMaxTTL>>} : Configured(mockOrigins, EmptyMap, c)

FreshControls ==
  {<<>>,
   <<Directive("max-age", <<60>>)>>,
   <<Directive("max-age", <<60>>), Directive("stale-while-revalidate", <<60>>)>>,
   <<Directive("max-age", <<90>>), Directive("stale-while-revalidate", <<30>>)>>,
   <<Directive("stale-while-revalidate", <<60>>)>>}
FreshResponses ==
  {Response(200, "text/html", cc, FALSE, FALSE, <<1024>>, 1024, e) :
     cc \in FreshControls, e \in {<<>>, <<now + 3 * FreshStep>>}}

AdvanceFresh == Tick(FreshStep, MaxFreshTicks * FreshStep)
StoreFresh == \E r \in FreshResponses : CacheSet(PageUrl, r, DesktopLAX, TRUE)
LookupFresh == \E c \in {DesktopLAX, PhoneSYD} : CacheGet(PageUrl, c, TRUE)

NextFreshness == AdvanceFresh \/ StoreFresh \/ LookupFresh

SpecFreshness == InitFreshness /\ [][NextFreshness]_vars

\* SpecBuckets: one url requested from several places (edge location and
\* country) with several user agents; a request is looked up, or the page the
\* origin renders for its bucket is stored.
Places ==
  {<<"LAX", "US">>, <<"LAX", "IM">>, <<"ADD", "IM">>, <<"ADD", "NE">>,
   <<"PIT", "NE">>, <<"PIT", "US">>}
UserAgents ==
  {"Mozilla/5.0 (iPhone) Mobile Safari", "Mozilla/5.0 (Linux; Android 13) Tablet",
   "Mozilla/5.0 (iPad) Safari", "Googlebot/2.1",
   "Mozilla/5.0 (Windows NT 10.0) Firefox", Undefined}
BucketContexts ==
  {RequestContext(p[1], p[2], ua) : p \in Places, ua \in UserAgents}

\* The (geography, device) bucket of a request.
Bucket(context) ==
  <<context.edgeColo, context.country, categorizeUserAgent(context.userAgent)>>

\* The length of the page the origin renders for a bucket, different for
\* different buckets.
BucketBody(context) ==
  LET Pos(seq, x) == CHOOSE i \in 1..Len(seq) : seq[i] = x
  IN 1000
     + 100 * Pos(<<"LAX", "ADD", "PIT">>, context.edgeColo)
     + 10 * Pos(<<"US", "IM", "NE">>, context.country)
     + Pos(<<"unknown", "mobile", "tablet", "bot", "desktop">>,
           categorizeUserAgent(context.userAgent))
BucketResponse(context) ==
  Response(200, "text/html", <<>>, FALSE, FALSE, <<BucketBody(context)>>, BucketBody(context), <<>>)

StoreBucket ==
  \E c \in BucketContexts :
    /\ \/ Cardinality(DOMAIN kvStore) < MaxEntries
       \/ generateCacheKey(PageUrl, c) \in DOMAIN kvStore
    /\ CacheSet(PageUrl, BucketResponse(c), c, TRUE)
LookupBucket == \E c \in BucketContexts : CacheGet(PageUrl, c, TRUE)

NextBuckets == StoreBucket \/ LookupBucket

SpecBuckets == Init /\ [][NextBuckets]_vars

\* SpecConfigured: failover in a balancer configured with one, two
\* or three origins; failover is asked for configured origins and for one
\* that is not configured.
OriginLists == {SubSeq(mockOrigins, 1, n) : n \in 1..Len(mockOrigins)}
InitConfigured == \E list \in OriginLists : Constructed(list, EmptyMap)

FailoverConfigured ==
  \E f \in Range(origins) \cup {"origin9"}, c \in Contexts,
     rnd \in {0, RandomSteps - 1} :
    GetFailoverOrigin(f, c, rnd, BaseRR, BaseConn)

NextConfigured == Probe \/ FailoverConfigured \/ ChooseAlgorithm

SpecConfigured == InitConfigured /\ [][NextConfigured]_vars

\* SpecInterleaved: getOptimalOrigin calls that overlap each other, releases,
\* a probe and a change of algorithm.  A behaviour starts after origin1 and
\* origin2 passed a probe at time 0; origin3 may pass one while calls are in
\* flight.  The algorithm is changed once, to one that counts.
PassedSnapshot(t) ==
  [healthy |-> TRUE, checks |-> [i \in 1..4 |-> CheckPassed(AllPass, i)],
   timestamp |-> t, responseTime |-> 0]
PassedOnce(origin) ==
  [origin |-> origin, totalChecks |-> 1, successfulChecks |-> 1,
   totalResponseTime |-> 0, errors |-> <<>>]

InitInterleaved ==
  /\ now = 0
  /\ origins = mockOrigins
  /\ healthCache = [o \in {"origin1", "origin2"} |->
                      [health |-> PassedSnapshot(now), timestamp |-> now]]
  /\ metrics = <<PassedOnce("origin1"), PassedOnce("origin2")>>
  /\ currentAlgorithm = HEALTH_SCORE
  /\ roundRobinIndex = 0
  /\ connectionCounts = initializeConnectionCounts(mockOrigins)
  /\ latencyHistory = EmptyMap
  /\ weights = initializeWeights(mockOrigins)
  /\ geographicMapping = initializeGeographicMapping(mockOrigins)
  /\ ret = NoRet
  /\ recorded = EmptyMap
  /\ kvStore = EmptyMap
  /\ maxTTL = DefaultMaxTTL
  /\ inflight = NoCalls
  /\ sweep = {}
  /\ pending = <<>>
  /\ probing = <<>>

ProbeThird == CheckOriginHealth("origin3", AllPass, 0)
UseCounting ==
  /\ currentAlgorithm = HEALTH_SCORE
  /\ \E a \in {ROUND_ROBIN, LEAST_CONNECTIONS} : SetAlgorithm(a)
Begin == \E s \in Slots : BeginSelection(s, Context("LAX", "US"))
Resume == \E s \in Slots, rnd \in {0, RandomSteps - 1} :
            ResumeSelection(s, rnd, MaxRR, MaxConn)

NextInterleaved == ProbeThird \/ UseCounting \/ Begin \/ Resume \/ Release

SpecInterleaved == InitInterleaved /\ [][NextInterleaved]_vars

\* SpecWorker: the worker once initializeComponents has built the
\* components.  startBackgroundMonitoring, handed to ctx.waitUntil, runs;
\* requests are routed through getOptimalOrigin; a /health request, if one
\* arrives, has checkAllOrigins probe every origin.  The runtime runs the
\* monitoring task, serves the requests that arrive and lets the probes of a
\* started sweep settle (each check has a timeout); nothing obliges a client
\* to ask for /health.
StartBackgroundMonitoring ==
  /\ ret' = Ret("startBackgroundMonitoring", Undefined, FALSE, Undefined,
                Undefined, 0)
  /\ UNCHANGED <<now, origins, asyncVars, cmVars, hcVars, lbVars, recorded>>

RouteRequest == \E c \in Contexts, rnd \in {0, RandomSteps - 1} :
                  GetOptimalOrigin(c, rnd, BaseRR, BaseConn)
HandleHealthCheck == BeginCheckAllOrigins
SettleProbe == \E o \in Range(origins), r \in ProbeOutcomes :
                 SettleOriginHealth(o, r, 0)

NextWorker ==
  StartBackgroundMonitoring \/ RouteRequest \/ HandleHealthCheck \/ SettleProbe

SpecWorker ==
  /\ Init
  /\ [][NextWorker]_vars
  /\ WF_vars(StartBackgroundMonitoring)
  /\ WF_vars(RouteRequest)
  /\ WF_vars(SettleProbe)

\* SpecProbeErrors: one round of probes of two origins, run on their own and by
\* checkAllOrigins, while the fetches of the four checks fail in every
\* combination: the checks in `failing` end with `error`, the others get
\* `answer`.  origin1 is an https origin, origin2 a plain http one.
InitProbeErrors == Constructed(<<"origin1", "origin2">>, EmptyMap)

FetchErrors ==
  {FetchFailed("AbortError", ProbeTimeout), FetchFailed("TypeError", 50)}

FetchAnswers == {Fetched(200, 100), Fetched(503, 3000)}

FetchProfiles ==
  {[i \in 1..4 |-> IF i \in failing THEN error ELSE answer] :
     failing \in SUBSET (1..4), error \in FetchErrors, answer \in FetchAnswers}
    \cup {[i \in 1..4 |-> Fetched(404, 100)]}

ProbeFetched == \E o \in Range(origins), f \in FetchProfiles :
                  FetchOriginHealth(o, f, o = "origin1", FALSE, MaxProbes)
SettleFetched == \E o \in Range(origins), f \in FetchProfiles :
                   FetchOriginHealth(o, f, o = "origin1", TRUE, MaxProbes)

NextProbeErrors == ProbeFetched \/ BeginCheckAllOrigins \/ SettleFetched

SpecProbeErrors == InitProbeErrors /\ [][NextProbeErrors]_vars

\* SpecErrorLog: origin1 probed again and again from construction on, half
\* a probe interval apart, each probe passing or failing, for more probes
\* than the error log has room for.
AdvanceLog == Tick(HalfInterval, MaxLogTicks * HalfInterval)
ProbeLogged == \E r \in ProbeOutcomes :
                 AwaitOriginHealth("origin1", r, 0, MaxLogTicks + 1)

NextErrorLog == AdvanceLog \/ ProbeLogged

SpecErrorLog == Init /\ [][NextErrorLog]_vars

\* SpecFailover: requests forwarded under every algorithm and every set of
\* origins probed healthy before the first request, the algorithm changing
\* between requests; the fetch of an origin answers, is refused or runs into
\* the timeout, and only a timeout takes time.
OriginFetches ==
  {Fetched(200, 0), FetchFailed("TypeError", 0),
   FetchFailed("AbortError", FailoverTimeout)}

Forward == \E rnd \in {0, RandomSteps - 1} :
             ForwardRequest(Context("LAX", "US"), rnd, BaseRR, BaseConn)
Settle == \E f \in OriginFetches, rnd \in {0, RandomSteps - 1} :
            FetchSettles(f, rnd, BaseRR, BaseConn, MaxHops)
ProbeBefore == ret = NoRet /\ Probe
ChooseBetween == pending = <<>> /\ ChooseAlgorithm

NextFailover == ProbeBefore \/ ChooseBetween \/ Forward \/ Settle

SpecFailover == Init /\ [][NextFailover]_vars

\* SpecOverlap: checkOriginHealth calls for two origins that overlap, as
\* those of two checkAllOrigins running at the same time do, while the clock
\* moves in steps of a sixth of the probe interval.
StartProbe == \E o \in {"origin1", "origin2"} : BeginOriginHealth(o, MaxOverlap)
FinishProbe == \E k \in 1..MaxOverlap, r \in ProbeOutcomes :
                 FinishOriginHealth(k, r)

NextOverlap == AdvanceCache \/ StartProbe \/ FinishProbe

SpecOverlap == Init /\ [][NextOverlap]_vars

\* SpecMapping: load balancers constructed over one, two and three origins,
\* their colo->origin table changed through addGeographicMapping and used
\* by geographic selections.
MapConfigured ==
  \E c \in {"LHR", "SYD"}, o \in Range(mockOrigins) \cup {"unknown"} :
    AddGeographicMapping(c, o)
SelectMapped == \E c \in GeoContexts : GetOptimalOrigin(c, 0, BaseRR, BaseConn)

NextMapping == Probe \/ MapConfigured \/ UseGeographic \/ SelectMapped

SpecMapping == InitConfigured /\ [][NextMapping]_vars

\* ------------------------------------------------------------------ claims
IsSelection == ret.op = "getOptimalOrigin"
IsFailover == ret.op = "getFailoverOrigin"
HealthySet == Range(getHealthyOrigins)

\* C1: getFailoverOrigin(failedOrigin, context) never returns failedOrigin
\* while some other configured origin is healthy, whatever the algorithm and
\* whether or not failedOrigin is itself still marked healthy.
C1_FailoverAvoidsFailedOrigin ==
  (IsFailover /\ HealthySet \ {ret.failedOrigin} # {})
    => ret.origin # ret.failedOrigin

\* C2: with at least one healthy origin, getOptimalOrigin completes without
\* throwing and returns a member of the healthy set, under each of the six
\* algorithms and any context.
C2_SelectionReturnsHealthyOrigin ==
  (IsSelection /\ HealthySet # {})
    => (~ret.threw /\ ret.origin \in HealthySet)

\* C3: with no healthy origin, getOptimalOrigin returns the first configured
\* origin and raises no error, whatever the active algorithm.
C3_FailOpenToFirstOrigin ==
  (IsSelection /\ HealthySet = {})
    => (~ret.threw /\ ret.origin = origins[1])

C3_Witness ==
  /\ IsSelection
  /\ HealthySet = {}
  /\ DOMAIN healthCache = Range(origins)
  /\ currentAlgorithm = LATENCY_BASED
  /\ ret.origin = origins[1]

\* Position of x in the sequence s.
IndexOf(s, x) == CHOOSE i \in 1..Len(s) : s[i] = x

\* C4: round-robin over a healthy set of n >= 2 origins returns the origin
\* at cursor mod n in list order and advances the cursor by exactly one; a
\* selection that directly follows another over the same healthy set returns
\* the next origin of the list, cyclically.
C4_RoundRobinCycles ==
  [][(ret'.op = "getOptimalOrigin" /\ currentAlgorithm = ROUND_ROBIN
        /\ Len(getHealthyOrigins) >= 2)
       => LET healthy == getHealthyOrigins
              n == Len(healthy)
          IN /\ ~ret'.threw
             /\ ret'.origin = healthy[(roundRobinIndex % n) + 1]
             /\ roundRobinIndex' = roundRobinIndex + 1
             /\ IsSelection
                  => ret'.origin = healthy[(IndexOf(healthy, ret.origin) % n) + 1]
    ]_vars

\* The cursor has wrapped around three healthy origins whose health scores
\* differ.
C4_Witness ==
  /\ IsSelection
  /\ currentAlgorithm = ROUND_ROBIN
  /\ Len(getHealthyOrigins) = 3
  /\ roundRobinIndex = 4
  /\ ret.origin = getHealthyOrigins[1]
  /\ \E i, j \in 1..Len(metrics) :
       /\ metrics[i].origin \in HealthySet
       /\ metrics[j].origin \in HealthySet
       /\ calculateHealthScore(metrics[i]) < calculateHealthScore(metrics[j])

\* The step just taken is a selection by `algorithm` over two or more
\* healthy origins.
Selected(algorithm) ==
  IsSelection /\ currentAlgorithm = algorithm /\ Len(getHealthyOrigins) >= 2

\* C5: leastConnections returns a healthy origin with the minimal connection
\* count, the first such in list order, and afterwards that origin's count
\* is one higher and every other count is unchanged.
C5_LeastConnectionsPicksMinimum ==
  [][(ret'.op = "getOptimalOrigin" /\ currentAlgorithm = LEAST_CONNECTIONS
        /\ Len(getHealthyOrigins) >= 2)
       => LET healthy == getHealthyOrigins
              picked == ret'.origin
          IN /\ ~ret'.threw
             /\ picked \in Range(healthy)
             /\ \A i \in 1..Len(healthy) :
                  /\ connectionCounts[picked] <= connectionCounts[healthy[i]]
                  /\ i < IndexOf(healthy, picked)
                       => connectionCounts[picked] < connectionCounts[healthy[i]]
             /\ connectionCounts' =
                  [connectionCounts EXCEPT ![picked] = connectionCounts[picked] + 1]
    ]_vars

\* The second of the healthy origins was picked while the first held more
\* connections.
C5_Witness ==
  /\ Selected(LEAST_CONNECTIONS)
  /\ ret.origin = getHealthyOrigins[2]
  /\ connectionCounts[ret.origin] = 1
  /\ connectionCounts[getHealthyOrigins[1]] = 2

\* Health score of a probed origin.
ScoreOf(origin) == calculateHealthScore(metrics[MetricsIndex(origin)])

\* The healthy origins whose score is at least 90% of the best healthy score.
TopBand ==
  {o \in HealthySet :
     \A best \in HealthySet : 10 * ScoreOf(o) >= 9 * ScoreOf(best)}

\* C6: health-score selection returns only healthy origins scoring at least
\* 90% of the best healthy score, and every origin of that band is returned
\* for some random draw.
C6_HealthScoreWithinTopBand ==
  (currentAlgorithm = HEALTH_SCORE /\ Len(getHealthyOrigins) >= 2)
    => /\ IsSelection => (~ret.threw /\ ret.origin \in TopBand)
       /\ {healthScoreBased(getHealthyOrigins, rnd).origin : rnd \in Randoms}
            = TopBand

\* Three healthy origins, two of them in the band with different scores, the
\* third below it; the lower-scored band member was selected.
C6_Witness ==
  /\ Selected(HEALTH_SCORE)
  /\ Cardinality(HealthySet) = 3
  /\ Cardinality(TopBand) = 2
  /\ ret.origin \in TopBand
  /\ \E o \in TopBand : ScoreOf(o) > ScoreOf(ret.origin)

\* Some healthy origin with the lowest average latency.
LowestLatency(origin) ==
  /\ origin \in HealthySet
  /\ \A o \in HealthySet : getAverageLatency(origin) <= getAverageLatency(o)

\* C7: with latency_based active and at least two healthy origins,
\* getOptimalOrigin returns the healthy origin with the lowest average
\* latency of the last ten minutes, 1000 ms standing for "no recent sample".
C7_LatencyBasedPicksLowest ==
  Selected(LATENCY_BASED) => (~ret.threw /\ LowestLatency(ret.origin))

\* C8: geographic selection returns the origin the colo->origin table maps
\* the request's colo to whenever that origin is healthy, and a successful
\* addGeographicMapping makes its origin the one the colo maps to.
C8_GeographicPrefersMappedOrigin ==
  /\ (IsSelection /\ currentAlgorithm = GEOGRAPHIC
        /\ ret.edgeColo \in DOMAIN geographicMapping
        /\ geographicMapping[ret.edgeColo] \in HealthySet)
       => (~ret.threw /\ ret.origin = geographicMapping[ret.edgeColo])
  /\ (ret.op = "addGeographicMapping" /\ ~ret.threw)
       => geographicMapping[ret.edgeColo] = ret.origin

\* LAX, mapped to origin1 at construction, was remapped to origin2, and a
\* request from LAX got origin2 out of three healthy origins.
C8_Witness ==
  /\ Selected(GEOGRAPHIC)
  /\ Len(getHealthyOrigins) = 3
  /\ ret.edgeColo = "LAX"
  /\ initializeGeographicMapping(origins)["LAX"] = "origin1"
  /\ geographicMapping["LAX"] = "origin2"
  /\ ret.origin = "origin2"

\* Sum of the weights of the first k healthy origins.
CumulativeWeight(k) ==
  SumSeq([i \in 1..k |-> WeightOf(getHealthyOrigins[i])])

\* The draw rnd / RandomSteps * totalWeight lies in the cumulative-weight
\* interval of the healthy origin at position i.
InWeightInterval(rnd, i) ==
  /\ CumulativeWeight(i - 1) * RandomSteps <= rnd * CumulativeWeight(Len(getHealthyOrigins))
  /\ rnd * CumulativeWeight(Len(getHealthyOrigins)) <= CumulativeWeight(i) * RandomSteps

\* C9: weighted round-robin returns, for a draw in [0, totalWeight), the
\* healthy origin whose cumulative-weight interval contains the draw; the
\* result is always healthy and every healthy origin is returned for some
\* draw.
C9_WeightedPicksByInterval ==
  (currentAlgorithm = WEIGHTED_ROUND_ROBIN /\ Len(getHealthyOrigins) >= 2)
    => /\ IsSelection => (~ret.threw /\ ret.origin \in HealthySet)
       /\ \A rnd \in Randoms :
            LET picked == weightedRoundRobin(getHealthyOrigins, rnd).origin
            IN /\ picked \in HealthySet
               /\ InWeightInterval(rnd, IndexOf(getHealthyOrigins, picked))
       /\ {weightedRoundRobin(getHealthyOrigins, rnd).origin : rnd \in Randoms}
            = HealthySet

\* The last of three healthy origins was selected although the first
\* carries twice its weight.
C9_Witness ==
  /\ Selected(WEIGHTED_ROUND_ROBIN)
  /\ Len(getHealthyOrigins) = 3
  /\ ret.origin = getHealthyOrigins[3]
  /\ weights[getHealthyOrigins[1]] = 2
  /\ weights[getHealthyOrigins[3]] = 1

\* Rounded mean latency of the samples of s younger than ten minutes, 1000
\* when there is none.
RecentMean(s) ==
  LET recent == {i \in 1..Len(s) : now - s[i].timestamp < LatencyWindow}
      counted == [i \in 1..Len(s) |-> IF i \in recent THEN s[i].latency ELSE 0]
  IN IF recent = {} THEN DefaultLatency
     ELSE RoundDiv(SumRange(counted, 1, Len(s)), Cardinality(recent))

\* The last HistoryCap elements of s.
LastRecorded(s) ==
  IF Len(s) > HistoryCap THEN SubSeq(s, Len(s) - HistoryCap + 1, Len(s)) ELSE s

IsAverage == ret.op = "getAverageLatency"

\* C10 as stated: getAverageLatency(origin) is the rounded mean of all the
\* samples recorded for origin less than ten minutes ago, 1000 when there is
\* none.
C10_AverageOverAllRecentSamples ==
  IsAverage => ret.value = RecentMean(GetOr(recorded, ret.origin, <<>>))

\* C10 as amended: getAverageLatency(origin) is the rounded mean of those of
\* the last 100 samples recorded for origin that are less than ten minutes
\* old, 1000 when there is none.
C10_AverageOverRetainedRecentSamples ==
  IsAverage
    => ret.value = RecentMean(LastRecorded(GetOr(recorded, ret.origin, <<>>)))

\* More than 100 samples were recorded, some of them ten minutes ago or
\* earlier, and the average is that of the recent ones.
C10_Witness ==
  /\ IsAverage
  /\ ret.origin = "origin1"
  /\ "origin1" \in DOMAIN recorded
  /\ Len(recorded["origin1"]) > HistoryCap
  /\ \E i \in 1..Len(recorded["origin1"]) :
       now - recorded["origin1"][i].timestamp >= LatencyWindow
  /\ ret.value = 200

\* C11: setAlgorithm(name) with a name outside the six recognised ones
\* throws and leaves the active algorithm and every other piece of
\* load-balancer and health state as it was; with a recognised name it
\* returns normally and that name is the active algorithm afterwards.
C11_SetAlgorithmValidates ==
  [][ret'.op = "setAlgorithm"
       => IF ret'.value \in {"round_robin", "least_connections",
                             "weighted_round_robin", "latency_based",
                             "geographic", "health_score"}
          THEN ~ret'.threw /\ currentAlgorithm' = ret'.value
          ELSE ret'.threw /\ UNCHANGED <<now, origins, hcVars, lbVars>>
    ]_vars

\* An unknown name was rejected while an algorithm other than the
\* constructor's default was active, and that algorithm is still active.
C11_Witness ==
  /\ ret.op = "setAlgorithm"
  /\ ret.threw
  /\ ret.value = "ROUND_ROBIN"
  /\ currentAlgorithm = GEOGRAPHIC

\* C12: setWeight(origin, w) throws when origin is not configured or w is not
\* strictly positive, addGeographicMapping(colo, origin) throws when origin
\* is not configured, and a call that throws leaves both the weight map and
\* the colo->origin map unchanged.
C12_SettersValidate ==
  [][/\ (ret'.op = "setWeight"
           /\ (ret'.origin \notin Range(origins) \/ ret'.value <= 0))
         => (ret'.threw /\ UNCHANGED <<weights, geographicMapping>>)
     /\ (ret'.op = "addGeographicMapping" /\ ret'.origin \notin Range(origins))
         => (ret'.threw /\ UNCHANGED <<weights, geographicMapping>>)
     /\ (ret'.op \in {"setWeight", "addGeographicMapping"} /\ ret'.threw)
         => UNCHANGED <<weights, geographicMapping>>
    ]_vars

\* setWeight was rejected for a configured origin because of its weight,
\* after both maps had been changed by successful calls.
C12_Witness ==
  /\ ret.op = "setWeight"
  /\ ret.threw
  /\ ret.origin = "origin1"
  /\ ret.value = 0
  /\ weights["origin1"] = MaxWeight
  /\ "SYD" \in DOMAIN geographicMapping

\* C13: in every reachable state every configured origin has a weight > 0
\* and a connection count >= 0, and releaseConnection on a count of 0 leaves
\* it at 0.
C13_WeightsAndCountsStayInRange ==
  /\ [](\A o \in Range(origins) : weights[o] > 0 /\ connectionCounts[o] >= 0)
  /\ [][(ret'.op = "releaseConnection" /\ connectionCounts[ret'.origin] = 0)
          => connectionCounts'[ret'.origin] = 0]_vars

\* releaseConnection returned for an origin that never held a connection
\* (no algorithm that counts connections was ever active), after a rejected
\* and an accepted setWeight.
C13_Witness ==
  /\ ret.op = "releaseConnection"
  /\ currentAlgorithm = HEALTH_SCORE
  /\ connectionCounts[ret.origin] = 0
  /\ weights["origin1"] = MaxWeight

\* C14: isOriginHealthy(origin) is false for an origin that was never
\* probed and false for a snapshot older than twice the probe interval, even
\* one that recorded healthy = true; otherwise it is the snapshot's healthy
\* flag.
C14_StaleSnapshotIsUnhealthy ==
  ret.op = "isOriginHealthy"
    => LET o == ret.origin
       IN IF o \notin DOMAIN healthCache THEN ret.value = FALSE
          ELSE IF now - healthCache[o].timestamp > 2 * CheckInterval
               THEN ret.value = FALSE
               ELSE ret.value = healthCache[o].health.healthy

\* A snapshot that recorded healthy = true, three intervals old, was
\* reported unhealthy.
C14_Witness ==
  /\ ret.op = "isOriginHealthy"
  /\ ret.origin \in DOMAIN healthCache
  /\ healthCache[ret.origin].health.healthy
  /\ now - healthCache[ret.origin].timestamp = 3 * CheckInterval
  /\ ret.value = FALSE

\* C15: whichever way the four checks of a probe settle, the snapshot it
\* produces has healthy = true exactly when at least 3 of them passed, that
\* is, were fulfilled with true.
C15_HealthyIffThreeOfFour ==
  (ret.op = "checkOriginHealth" /\ ret.results # <<>>)
    => LET passed == {i \in 1..4 : ret.results[i] = "true"}
       IN /\ ret.value.healthy <=> Cardinality(passed) >= 3
          /\ healthCache[ret.origin].health = ret.value
          /\ \A i \in 1..4 : ret.value.checks[i] <=> i \in passed

\* A probe whose connectivity check was rejected and whose other three
\* checks passed produced a healthy snapshot.
C15_Witness ==
  /\ ret.op = "checkOriginHealth"
  /\ ret.results = <<"rejected", "true", "true", "true">>
  /\ ret.value.healthy

\* C16: a checkOriginHealth call made less than half the probe interval
\* after the origin's result was cached returns the cached snapshot, runs no
\* check and changes neither the metrics (error log included) nor the health
\* cache; a call made half the interval or more after it, or for an origin
\* with no cached result, runs the checks, caches the new snapshot under the
\* time of its completion and counts one more probe for the origin.
C16_CachedForHalfInterval ==
  [][ret'.op = "checkOriginHealth"
       => LET o == ret'.origin
              cached == o \in DOMAIN healthCache
              age == now - healthCache[o].timestamp
              i == MetricsIndex(o)
              before == IF i = 0 THEN 0 ELSE metrics[i].totalChecks
          IN IF cached /\ 2 * age < CheckInterval
             THEN /\ ret'.results = <<>>
                  /\ ret'.value = healthCache[o].health
                  /\ UNCHANGED <<healthCache, metrics, now>>
             ELSE /\ ret'.results # <<>>
                  /\ healthCache' =
                       MapSet(healthCache, o,
                              [health |-> ret'.value, timestamp |-> now'])
                  /\ ret'.value.timestamp = now
                  /\ \E j \in 1..Len(metrics') :
                       /\ metrics'[j].origin = o
                       /\ metrics'[j].totalChecks = before + 1
    ]_vars

\* A second probe of an origin ran exactly half an interval after the first
\* result was cached at time 0, and replaced a healthy snapshot by an
\* unhealthy one.
C16_Witness ==
  /\ ret.op = "checkOriginHealth"
  /\ ret.results = TwoFail
  /\ now = HalfInterval
  /\ ret.value.timestamp = HalfInterval
  /\ healthCache[ret.origin].health = ret.value
  /\ LET m == metrics[MetricsIndex(ret.origin)]
     IN m.totalChecks = 2 /\ m.successfulChecks = 1

\* Ten times the probe response-time threshold times the number of probes:
\* the common denominator of the three terms of the health score.
ScoreDenominator(m) == 10 * ResponseTimeThreshold * m.totalChecks

\* ScoreDenominator times
\*   0.4 * 100 * successRate
\*   + 0.3 * max(0, 100 * (1 - avgResponseTime / threshold))
\*   + 0.3 * max(0, 100 - 20 * recentErrorCount)
ScoreNumerator(m) ==
  LET recentErrorCount ==
        Cardinality({k \in 1..Len(m.errors) : now - m.errors[k] < 5 * CheckInterval})
      responseTerm == 100 * (ResponseTimeThreshold * m.totalChecks
                             - m.totalResponseTime)
      recentTerm == 100 - 20 * recentErrorCount
  IN 400 * m.successfulChecks * ResponseTimeThreshold
     + 3 * (IF responseTerm > 0 THEN responseTerm ELSE 0)
     + 3 * (IF recentTerm > 0 THEN recentTerm ELSE 0)
         * ResponseTimeThreshold * m.totalChecks

\* C17: every health score reported for an origin lies in 0..100 and is the
\* weighted sum of success rate, response-time term and recent-error term,
\* rounded to an integer, the recent errors being those logged less than
\* five probe intervals ago.
C17_HealthScoreFormula ==
  ret.op = "getOriginsByHealth"
    => /\ Len(ret.value) = Len(metrics)
       /\ \A k \in 1..Len(ret.value) :
            LET m == metrics[MetricsIndex(ret.value[k].origin)]
                score == ret.value[k].healthScore
                diff == score * ScoreDenominator(m) - ScoreNumerator(m)
            IN /\ score \in 0..100
               /\ 2 * diff <= ScoreDenominator(m)
               /\ 2 * diff >= 0 - ScoreDenominator(m)

\* A score of 30 was reported for an origin that never passed a probe and
\* whose log holds more than five recent errors and an error that is no
\* longer recent: only the response-time term contributes.
C17_Witness ==
  /\ ret.op = "getOriginsByHealth"
  /\ \E k \in 1..Len(ret.value) :
       LET m == metrics[MetricsIndex(ret.value[k].origin)]
       IN /\ \E a \in 1..Len(m.errors) : now - m.errors[a] >= 5 * CheckInterval
          /\ Cardinality({a \in 1..Len(m.errors) :
                            now - m.errors[a] < 5 * CheckInterval}) > 5
          /\ m.successfulChecks = 0
          /\ ret.value[k].healthScore = 30

\* The entry stored under the key of the call that just returned.
StoredEntry == kvStore[generateCacheKey(ret.url, ret.context)]

\* C18: when the backend takes the write, set() returns true and puts an
\* entry iff the response's status is 2xx or 404, its cache-control has
\* neither no-store nor no-cache, it carries neither an authorization nor a
\* set-cookie header, and its body is at most 10 MiB long; otherwise it
\* returns false and writes nothing.
C18_StoresIffEligible ==
  [][(ret'.op = "set" /\ ~(ret'.put /\ ret'.value = FALSE))
       => LET r == ret'.response
              eligible ==
                /\ r.status \in 200..299 \cup {404}
                /\ \A i \in 1..Len(r.cacheControl) :
                     r.cacheControl[i].name \notin {"no-store", "no-cache"}
                /\ ~r.authorization
                /\ ~r.setCookie
                /\ r.bodySize <= 10 * 1024 * 1024
          IN IF eligible
             THEN /\ ret'.value = TRUE
                  /\ ret'.put
                  /\ generateCacheKey(ret'.url, ret'.context) \in DOMAIN kvStore'
             ELSE /\ ret'.value = FALSE
                  /\ ~ret'.put
                  /\ kvStore' = kvStore
    ]_vars

StrategyDefault(contentType) ==
  CASE contentType \in {"text/html", "text/html; charset=utf-8"} -> 3600
    [] contentType = "application/json" -> 1800
    [] contentType = "image/png" -> 604800
    [] contentType = "font/woff2" -> 2592000
    [] OTHER -> 3600

\* C20: the TTL of a stored entry is that of the max-age directive if the
\* response has one, else that of the Expires header if it has one, else the
\* default of its content type, and in each case at most the global maximum
\* TTL.
C20_TTLResolutionOrder ==
  (ret.op = "set" /\ ret.value = TRUE)
    => LET r == ret.response
           ttl == (StoredEntry.expiresAt - StoredEntry.cachedAt) \div 1000
           maxAge == SelectSeq(r.cacheControl, LAMBDA d : d.name = "max-age")
           resolved ==
             IF Len(maxAge) > 0 THEN maxAge[1].arg[1]
             ELSE IF r.expires # <<>>
                  THEN (r.expires[1] - StoredEntry.cachedAt) \div 1000
                  ELSE StrategyDefault(r.contentType)
       IN /\ ttl = (IF resolved <= maxTTL THEN resolved ELSE maxTTL)
          /\ ttl <= maxTTL

\* The set() that just returned stored a text/html response whose
\* cache-control has no max-age directive.
StoredHtmlWithoutMaxAge ==
  /\ ret.op = "set"
  /\ ret.value = TRUE
  /\ ret.response.contentType \in {"text/html", "text/html; charset=utf-8"}
  /\ \A i \in 1..Len(ret.response.cacheControl) :
       ret.response.cacheControl[i].name # "max-age"

\* The HTML strategy default, or the global maximum TTL when that is smaller,
\* in ms.
HtmlLifetime == 1000 * (IF 3600 <= maxTTL THEN 3600 ELSE maxTTL)

\* C21 as stated: a cacheable text/html response with no explicit max-age is
\* stored with expiresAt - cachedAt equal to the HTML strategy default
\* (3600 s), or to the global maximum TTL when that is smaller.
C21_HtmlGetsStrategyDefault ==
  StoredHtmlWithoutMaxAge
    => StoredEntry.expiresAt - StoredEntry.cachedAt = HtmlLifetime

\* C21 as amended: a cacheable text/html response with no explicit max-age
\* and no Expires time a second or more after the time of storing is stored
\* with expiresAt - cachedAt equal to the HTML strategy default (3600 s), or
\* to the global maximum TTL when that is smaller.
C21_HtmlWithoutExpiresGetsDefault ==
  (StoredHtmlWithoutMaxAge
     /\ (ret.response.expires = <<>>
           \/ ret.response.expires[1] - StoredEntry.cachedAt < 1000))
    => StoredEntry.expiresAt - StoredEntry.cachedAt = HtmlLifetime

\* Under a maximum TTL of 1800 s an HTML page with a charset parameter,
\* "cache-control: public" and no Expires header was stored for 1800 s.
C21_Witness ==
  /\ StoredHtmlWithoutMaxAge
  /\ maxTTL = ConfiguredMaxTTL
  /\ ret.response.contentType = "text/html; charset=utf-8"
  /\ ret.response.cacheControl = <<Directive("public", <<>>)>>
  /\ ret.response.expires = <<>>
  /\ StoredEntry.expiresAt - StoredEntry.cachedAt = 1000 * ConfiguredMaxTTL

\* C22: every entry written by set() satisfies freshUntil <= expiresAt,
\* also for a response whose max-age exceeds the global maximum TTL.
C22_FreshUntilWithinExpiry ==
  \A k \in DOMAIN kvStore : kvStore[k].freshUntil <= kvStore[k].expiresAt

\* The key of the get() that returns in the step.
LookupKey == generateCacheKey(ret'.url, ret'.context)

\* The step is a get() that the backend answers with an entry.
LookupFindsEntry == ret'.op = "get" /\ LookupKey \in DOMAIN kvStore

\* C23: get() of an entry with now > expiresAt returns a miss and issues a
\* delete of its key to the backend; an entry with now <= expiresAt is
\* returned as a hit and is not deleted.
C23_ExpiredIsMissAndEvicted ==
  [][LookupFindsEntry
       => IF now > kvStore[LookupKey].expiresAt
          THEN /\ ret'.value = <<>>
               /\ ret'.deleted
               /\ LookupKey \notin DOMAIN kvStore'
          ELSE /\ ret'.value # <<>>
               /\ ret'.value[1].cacheStatus = "HIT"
               /\ ret'.value[1].status = kvStore[LookupKey].status
               /\ ~ret'.deleted
               /\ kvStore' = kvStore
    ]_vars

\* An entry was returned as a hit at the very millisecond of its expiry,
\* 60 s after it was stored, and is still in the backend.
C23_Witness ==
  /\ ret.op = "get"
  /\ ret.value # <<>>
  /\ ret.value[1].cacheTTL = 0
  /\ ret.value[1].cacheAge = 60
  /\ ~ret.deleted
  /\ generateCacheKey(ret.url, ret.context) \in DOMAIN kvStore
  /\ StoredEntry.expiresAt = now

\* C24: an entry that is past its fresh-until time but still within its
\* stale-while-revalidate window is returned by get() as a hit with the
\* stale flag set (X-Cache-Stale), not reported as a miss.
C24_StaleWithinWindowIsHit ==
  [][(/\ LookupFindsEntry
      /\ now > kvStore[LookupKey].freshUntil
      /\ now <= kvStore[LookupKey].freshUntil
                  + 1000 * kvStore[LookupKey].staleWhileRevalidate)
       => (ret'.value # <<>> /\ ret'.value[1].stale)
    ]_vars

IsCacheCall(r) == r.op \in {"set", "get"}

\* C25: for a fixed url, two request contexts produce the same cache key iff
\* they agree on edge location, country and device class; so an entry stored
\* for one (geography, device) bucket is never returned by get() to a request
\* of a different bucket.
C25_OneKeyPerBucket ==
  /\ [][(IsCacheCall(ret) /\ IsCacheCall(ret') /\ ret.url = ret'.url)
          => (generateCacheKey(ret.url, ret.context)
                = generateCacheKey(ret'.url, ret'.context)
              <=> Bucket(ret.context) = Bucket(ret'.context))]_vars
  /\ []((ret.op = "get" /\ ret.value # <<>>)
          => ret.value[1].bodySize = BucketBody(ret.context))

\* C26: when the key-value backend fails (get or put raises, or the stored
\* value cannot be (de)serialised), get() returns a miss and set() returns
\* false; neither throws, and the backend's content is as it was.
C26_BackendErrorsSwallowed ==
  [][(IsCacheCall(ret') /\ ret'.backendError)
       => /\ ~ret'.threw
          /\ ret'.op = "get" => ret'.value = <<>>
          /\ ret'.op = "set" => ret'.value = FALSE
          /\ kvStore' = kvStore
    ]_vars

\* The put of a cacheable page failed and set() returned false, while the
\* backend still holds the entry an earlier set() wrote for the same key.
C26_Witness ==
  /\ ret.op = "set"
  /\ ret.backendError
  /\ ret.put
  /\ ret.value = FALSE
  /\ ~ret.threw
  /\ generateCacheKey(ret.url, ret.context) \in DOMAIN kvStore
  /\ StoredEntry.headers # ret.response

\* The configured origins other than the failed one, in list order.
OtherOrigins == SelectSeq(origins, LAMBDA o : o # ret.failedOrigin)

\* C27: when no origin other than failedOrigin is healthy, getFailoverOrigin
\* returns, without throwing, the first configured origin that is not
\* failedOrigin; only when failedOrigin is the sole configured origin does it
\* return failedOrigin itself.
C27_FailoverLastResort ==
  (IsFailover /\ HealthySet \ {ret.failedOrigin} = {})
    => /\ ~ret.threw
       /\ IF origins = <<ret.failedOrigin>>
          THEN ret.origin = ret.failedOrigin
          ELSE ret.origin = OtherOrigins[1] /\ ret.origin # ret.failedOrigin

\* The first of three origins failed while it was the only healthy one, and
\* the second, unhealthy, was handed out under latency_based.
C27_Witness ==
  /\ IsFailover
  /\ Len(origins) = 3
  /\ ret.failedOrigin = origins[1]
  /\ HealthySet = {origins[1]}
  /\ DOMAIN healthCache = Range(origins)
  /\ currentAlgorithm = LATENCY_BASED
  /\ ret.origin = origins[2]

\* Sum of the connection counts of the configured origins.
TotalConnections(counts) ==
  SumSeq([i \in 1..Len(origins) |-> GetOr(counts, origins[i], 0)])

\* The step completes the getOptimalOrigin call of slot s.
Completes(s) == inflight[s] # <<>> /\ inflight'[s] = <<>>

\* C28: under every interleaving of getOptimalOrigin and releaseConnection
\* calls no counter update is lost.  Each selection that completes over two
\* or more healthy origins raises the sum of the connection counts by
\* exactly one when least_connections is active and the cursor by exactly
\* one when round_robin is, however many other calls are in flight; and no
\* step but a completing selection or a release changes either counter, so
\* N completed selections without a release leave the sum, or the cursor,
\* exactly N higher.
C28_NoLostUpdate ==
  [][/\ \A s \in Slots :
          (Completes(s) /\ Len(inflight[s][1].healthyOrigins) >= 2)
            => /\ currentAlgorithm = LEAST_CONNECTIONS
                    => /\ TotalConnections(connectionCounts')
                            = TotalConnections(connectionCounts) + 1
                       /\ roundRobinIndex' = roundRobinIndex
               /\ currentAlgorithm = ROUND_ROBIN
                    => /\ roundRobinIndex' = roundRobinIndex + 1
                       /\ connectionCounts' = connectionCounts
     /\ ((\A s \in Slots : ~Completes(s)) /\ ret'.op # "releaseConnection")
          => UNCHANGED <<roundRobinIndex, connectionCounts>>
    ]_vars

\* A least-connections selection completed and raised origin2's count to
\* one while another call, begun before origin3 became healthy, is still
\* suspended with its list of two healthy origins; origin1 holds the
\* connection of an earlier selection.
C28_Witness ==
  /\ IsSelection
  /\ currentAlgorithm = LEAST_CONNECTIONS
  /\ Cardinality(Suspended) = 1
  /\ \A s \in Suspended : Len(inflight[s][1].healthyOrigins) = 2
  /\ Len(getHealthyOrigins) = 3
  /\ ret.origin = "origin2"
  /\ connectionCounts["origin1"] = 1
  /\ connectionCounts["origin2"] = 1
  /\ connectionCounts["origin3"] = 0

\* C29: the request path only reads health state: a getOptimalOrigin or
\* getFailoverOrigin call starts no probe: it leaves the health-snapshot
\* cache and the per-origin metrics, probe counts and error log included,
\* as they were.
C29_RequestPathReadsHealthOnly ==
  [][ret'.op \in {"getOptimalOrigin", "getFailoverOrigin"}
       => /\ healthCache' = healthCache
          /\ metrics' = metrics
    ]_vars

\* A failover was answered under health_score, which consults the health
\* scores, with two healthy origins and one that failed its only probe and
\* has an error logged.
C29_Witness ==
  /\ IsFailover
  /\ currentAlgorithm = HEALTH_SCORE
  /\ DOMAIN healthCache = Range(origins)
  /\ Cardinality(HealthySet) = 2
  /\ \E i \in 1..Len(metrics) :
       metrics[i].totalChecks = 1 /\ Len(metrics[i].errors) = 1
  /\ ret.origin \in HealthySet

\* C30: health probing runs on its own schedule: once the components are
\* initialised every configured origin is eventually probed and its snapshot
\* written into the health cache, also when no /health request is ever
\* received.
C30_EveryOriginEventuallyProbed ==
  <>(\A o \in Range(origins) : o \in DOMAIN healthCache)

\* C31: with the geographic algorithm active, a request whose colo has no
\* mapping, or whose mapped origin is not healthy, falls back to the
\* continent heuristic and then to the first healthy origin: the call
\* returns a healthy origin and raises no error.
C31_GeographicFallsBack ==
  (Selected(GEOGRAPHIC)
     /\ (ret.edgeColo \notin DOMAIN geographicMapping
           \/ geographicMapping[ret.edgeColo] \notin HealthySet))
    => (~ret.threw /\ ret.origin \in HealthySet)

\* The verdict a check reaches on the end of its own fetch.
CheckVerdict(i, fetched, https) ==
  CASE i = 1 -> fetched.kind = "response" /\ fetched.status < 500
    [] i = 2 -> fetched.kind = "response" /\ fetched.ms <= ResponseTimeThreshold
    [] i = 3 -> fetched.kind = "response" /\ fetched.status \in 200..299
    [] i = 4 -> ~https \/ fetched.kind = "response"

IsFreshProbe == ret.op = "checkOriginHealth" /\ ret.results # <<>>

\* C32: the four checks of a probe are failure-isolated: whichever of them
\* fail, time out or throw, checkOriginHealth returns a snapshot, and the
\* snapshot records for every check the verdict on that check's own fetch,
\* whatever became of the other three.
C32_ChecksFailureIsolated ==
  (IsFreshProbe /\ "fetches" \in DOMAIN ret)
    => /\ ~ret.threw
       /\ healthCache[ret.origin].health = ret.value
       /\ \A i \in 1..4 :
            ret.value.checks[i] <=> CheckVerdict(i, ret.fetches[i], ret.https)

\* The connectivity fetch of a probe timed out, so that its check threw,
\* and the snapshot returned records the other three checks as passed.
C32_Witness ==
  /\ IsFreshProbe
  /\ "fetches" \in DOMAIN ret
  /\ ret.https
  /\ ret.fetches[1] = FetchFailed("AbortError", ProbeTimeout)
  /\ ret.results[1] = "rejected"
  /\ \A i \in 2..4 : ret.fetches[i] = Fetched(200, 100) /\ ret.value.checks[i]
  /\ ~ret.value.checks[1]
  /\ ret.value.healthy

\* The error log of origin in the metrics Map ms, empty without an entry.
ErrorLogOf(ms, origin) ==
  IF \E i \in 1..Len(ms) : ms[i].origin = origin
  THEN ms[CHOOSE i \in 1..Len(ms) : ms[i].origin = origin].errors
  ELSE <<>>

\* The call r ran the checks and the fetch of at least one of them ended in
\* an error.
ProbeWithError(r) ==
  /\ r.op = "checkOriginHealth"
  /\ r.results # <<>>
  /\ "fetches" \in DOMAIN r
  /\ \E i \in 1..4 : (i = 4 => r.https) /\ r.fetches[i].kind = "error"

\* C33 as stated: no probe error leaves checkOriginHealth or
\* checkAllOrigins, and every probe in which one occurred appends an entry
\* to the origin's error log.
C33_EveryProbeErrorLogged ==
  [][ProbeWithError(ret')
       => /\ ~ret'.threw
          /\ ErrorLogOf(metrics', ret'.origin)
               = Append(ErrorLogOf(metrics, ret'.origin), now')
    ]_vars

\* C33, amended: no probe error leaves checkOriginHealth or checkAllOrigins;
\* a probe that such errors leave unhealthy appends an entry, stamped with
\* the time the probe ended, to the origin's error log, and the health score
\* computed next counts it among the recent errors; a probe that is healthy
\* in spite of an error appends nothing.
C33_UnhealthyProbeErrorLogged ==
  /\ [][ProbeWithError(ret')
          => /\ ~ret'.threw
             /\ ErrorLogOf(metrics', ret'.origin)
                  = IF ret'.value.healthy
                    THEN ErrorLogOf(metrics, ret'.origin)
                    ELSE Append(ErrorLogOf(metrics, ret'.origin), now')
       ]_vars
  /\ [](ProbeWithError(ret) /\ ~ret.value.healthy
          => LET m == metrics[MetricsIndex(ret.origin)]
             IN /\ RecentErrors(m) >= 1
                /\ calculateHealthScore(m) <= 70)

\* The last probe of a checkAllOrigins sweep ended with every fetch refused:
\* the sweep returned and the origin's log holds the entry.
C33_Witness ==
  /\ ProbeWithError(ret)
  /\ ret.completes
  /\ \A i \in 1..4 : ret.fetches[i] = FetchFailed("TypeError", 50)
  /\ ~ret.value.healthy
  /\ ErrorLogOf(metrics, ret.origin) = <<now>>

\* C34: an origin's rolling error log never holds more than 10 entries, and
\* a failure recorded into a full log drops the oldest entry: the log
\* becomes its last nine entries followed by the new one.
C34_ErrorLogBounded ==
  /\ [](\A i \in 1..Len(metrics) : Len(metrics[i].errors) <= MaxErrorLog)
  /\ [][(ret'.op = "checkOriginHealth" /\ ret'.results # <<>>
           /\ ~ret'.value.healthy
           /\ Len(ErrorLogOf(metrics, ret'.origin)) = MaxErrorLog)
          => ErrorLogOf(metrics', ret'.origin)
               = Append(Tail(ErrorLogOf(metrics, ret'.origin)), now')
       ]_vars

\* Eleven probes of origin1 failed in a row: its log holds ten entries, the
\* failure at time 0 is gone and the eleventh is the last entry.
C34_Witness ==
  /\ IsFreshProbe
  /\ ret.origin = "origin1"
  /\ ~ret.value.healthy
  /\ metrics[MetricsIndex("origin1")].totalChecks = MaxErrorLog + 1
  /\ metrics[MetricsIndex("origin1")].successfulChecks = 0
  /\ Len(ErrorLogOf(metrics, "origin1")) = MaxErrorLog
  /\ ErrorLogOf(metrics, "origin1")[1] = HalfInterval
  /\ ErrorLogOf(metrics, "origin1")[MaxErrorLog] = now

\* The fetch of the request's current origin ran into the timeout.
TimedOut(r) ==
  /\ r.op = "fetchWithOptimizations"
  /\ r.fetched = FetchFailed("AbortError", FailoverTimeout)

\* C35: the failover chain has no hop limit.  However many origins a
\* request has timed out on, one more timeout sends it on to the origin
\* getFailoverOrigin returns whenever that differs from the one that timed
\* out, and with two or more origins configured and none healthy it always
\* differs: as long as origins keep timing out the request does not end.
C35_NoHopLimit ==
  [][(pending # <<>> /\ TimedOut(ret'))
       => /\ (ret'.asked /\ ~ret'.threw) =>
               /\ pending' # <<>>
               /\ pending'[1].origin = ret'.failover
               /\ pending'[1].origin # pending[1].origin
               /\ pending'[1].trail = Append(pending[1].trail, ret'.failover)
          /\ (HealthySet = {} /\ Len(origins) >= 2) => pending' # <<>>
    ]_vars

\* With no origin healthy a request has timed out on origin1, origin2,
\* origin1 and is on its way to origin2 again, having used every hop
\* explored.
C35_Witness ==
  /\ TimedOut(ret)
  /\ HealthySet = {}
  /\ pending # <<>>
  /\ Len(pending[1].trail) = MaxHops + 1
  /\ \A i \in 1..(MaxHops + 1) :
       pending[1].trail[i] = IF i % 2 = 1 THEN "origin1" ELSE "origin2"

\* C36: on the request path a fetch that runs into the timeout triggers
\* failover: getFailoverOrigin is asked, the request is sent on to the
\* origin it returns when that differs from the one that timed out, and the
\* timeout error is rethrown when it is the same; any other fetch error is
\* rethrown with no failover attempt, the selection counters untouched.
C36_TimeoutTriggersFailover ==
  [][(pending # <<>> /\ ret'.op = "fetchWithOptimizations"
        /\ ret'.fetched.kind = "error")
       => IF TimedOut(ret')
          THEN /\ ret'.asked
               /\ (ret'.failover # Undefined /\ ret'.failover # ret'.origin)
                    => /\ ret'.retried /\ ~ret'.threw
                       /\ pending' # <<>>
                       /\ pending'[1].origin = ret'.failover
               /\ ret'.failover = ret'.origin
                    => /\ ~ret'.retried /\ ret'.threw
                       /\ ret'.error = "AbortError"
                       /\ pending' = <<>>
          ELSE /\ ~ret'.asked /\ ~ret'.retried
               /\ ret'.threw /\ ret'.error = ret'.fetched.error
               /\ pending' = <<>>
               /\ roundRobinIndex' = roundRobinIndex
               /\ connectionCounts' = connectionCounts
    ]_vars

\* origin1 timed out while still marked healthy, health_score selected it
\* again as the failover origin, and the timeout error was rethrown at the
\* first hop.
C36_Witness ==
  /\ TimedOut(ret)
  /\ currentAlgorithm = HEALTH_SCORE
  /\ ret.origin = "origin1"
  /\ ret.origin \in HealthySet
  /\ Cardinality(HealthySet) >= 2
  /\ ret.asked
  /\ ret.failover = ret.origin
  /\ ret.threw /\ ret.error = "AbortError"
  /\ ret.value = 0
  /\ pending = <<>>

\* C37: with least_connections active every getOptimalOrigin call raises the
\* live-connection count of the origin it returns by exactly one and leaves
\* the other counts alone, also when one origin or none is healthy, so that
\* one releaseConnection per selection keeps each count equal to the
\* origin's selected-but-unreleased requests.
C37_SelectionCountsConnection ==
  [][(ret'.op = "getOptimalOrigin" /\ ~ret'.threw
        /\ currentAlgorithm = LEAST_CONNECTIONS)
       => connectionCounts'
            = [connectionCounts EXCEPT ![ret'.origin] = @ + 1]
    ]_vars


\* C37, amended: with least_connections active a getOptimalOrigin call made
\* while two or more origins are healthy raises the count of the origin it
\* returns by exactly one and leaves the other counts alone; a call made
\* while one origin or none is healthy returns its origin directly and
\* changes no count.
C37_SelectionCountsAmongSeveral ==
  [][(ret'.op = "getOptimalOrigin" /\ ~ret'.threw
        /\ currentAlgorithm = LEAST_CONNECTIONS)
       => connectionCounts'
            = IF Len(getHealthyOrigins) >= 2
              THEN [connectionCounts EXCEPT ![ret'.origin] = @ + 1]
              ELSE connectionCounts
    ]_vars

\* With least_connections active and origin2 the only healthy origin, a
\* selection returned origin2 and no origin has a connection counted.
C37_Witness ==
  /\ IsSelection
  /\ currentAlgorithm = LEAST_CONNECTIONS
  /\ HealthySet = {"origin2"}
  /\ DOMAIN healthCache = Range(origins)
  /\ ret.origin = "origin2"
  /\ \A o \in Range(origins) : connectionCounts[o] = 0

\* The times at which probe rounds of origin were started that are still to
\* be seen: by the calls in flight and by the cached snapshot.
RoundStarts(origin) ==
  {probing[i].startTime : i \in {j \in 1..Len(probing) : probing[j].origin = origin}}
    \cup (IF origin \in DOMAIN healthCache
          THEN {healthCache[origin].health.timestamp} ELSE {})

\* C38: under overlapping checkOriginHealth calls for one origin redundant
\* probing is avoided: no two calls for an origin run their checks at the
\* same time, any two probe rounds of an origin start at least half a probe
\* interval apart, and an origin's totalChecks is at most the number of
\* half-interval windows begun.
C38_OneProbeRoundPerWindow ==
  \A o \in Range(origins) :
    /\ Cardinality({i \in 1..Len(probing) : probing[i].origin = o}) <= 1
    /\ \A s, t \in RoundStarts(o) : s < t => 2 * (t - s) >= CheckInterval
    /\ MetricsIndex(o) # 0
         => metrics[MetricsIndex(o)].totalChecks * CheckInterval
              <= 2 * now + CheckInterval

\* C39: in every reachable state, right after construction over any number
\* of origins included, every value of the colo->origin table is one of the
\* configured origins.
C39_MappingValuesConfigured ==
  \A c \in DOMAIN geographicMapping : geographicMapping[c] \in Range(origins)

====
